---- MODULE Spec2Model ----
(***************************************************************************)
(* Model of the skill discovery-and-ranking pipeline:                      *)
(*   lib/skill-ranker.js  - the four-factor scoring engine                 *)
(*   lib/repo-catalog.js  - the persisted repository catalog               *)
(*   lib/github-scanner.js - the GitHub client and the crawler             *)
(*                                                                         *)
(* JavaScript values that can be a number, NaN, undefined or null are      *)
(* tagged records, so that arithmetic on a missing property propagates as  *)
(* it does in the runtime.  Strings are sequences of atoms (words and      *)
(* separator characters); their length is the sum of the atoms' lengths.   *)
(***************************************************************************)
EXTENDS Integers, Sequences, FiniteSets, TLC

VARIABLES
    jA, jB, jOut,                 \* jaccardSimilarity: arguments, result
    uSkill, uExisting, uOut,      \* scoreUniqueness: arguments, result
    discovered, existing, ranked, \* rankAll: arguments, result
    catalog, clock, visits,       \* repo catalog, wall clock, log of calls
    gCaller, gAttempt, gNow,      \* rateLimitedGet: caller, loop index, Date.now()
    gTrace, gResult, gOut,        \* requests made, its outcome, the caller's outcome
    kOptions, kToken,             \* searchForSkillRepos: options, GITHUB_TOKEN set
    kPc, kIdx, kItems,            \* its position, loop index, result being walked
    kQueryIndex, kPageIndex,      \* queryIndex, pageIndex
    allItems, checkedRepos,       \* allItems, checkedRepos
    disk,                         \* the catalog file
    kLog, kOut,                   \* requests and long sleeps started, its outcome
    iMinScore, iOut,              \* consolidate: options.minScore, what it returns
    qOut,                         \* getCatalogStats / getStaleRepos: the last call
    pPc, pCatalog,                \* two crawl processes: where each is, its catalog,
    pDisk, pWriter, pClock, pLog, \* the file they share, its last writer, the log
    lPc, lBranch, lClock, lToken, \* one scanSingleRepo call: where it is, the branch
    lRequests, lOut,              \* to list, the clock, its requests, its outcome
    aSkill, aOut,                 \* categorizeSkill: the skill, the category returned
    dProc, dStatus, dStartedAt,   \* dashboard: scannerProcess, scannerStatus, ...
    dConfig, dLogs,               \* scannerConfig, scannerLogs
    dChildren, dTimers, dPolls,   \* children forked, pending timeouts, intervals
    dClock, dLast                 \* the clock, the handler that ran last

jVars == <<jA, jB, jOut>>
uVars == <<uSkill, uExisting, uOut>>
rVars == <<discovered, existing, ranked>>
cVars == <<catalog, clock, visits>>
gVars == <<gCaller, gAttempt, gNow, gTrace, gResult, gOut>>
kVars == <<kOptions, kToken, kPc, kIdx, kItems, kQueryIndex, kPageIndex,
           allItems, checkedRepos, disk, kLog, kOut>>
iVars == <<iMinScore, iOut>>
qVars == <<qOut>>
pVars == <<pPc, pCatalog, pDisk, pWriter, pClock, pLog>>
lVars == <<lPc, lBranch, lClock, lToken, lRequests, lOut>>
aVars == <<aSkill, aOut>>
dVars == <<dProc, dStatus, dStartedAt, dConfig, dLogs, dChildren, dTimers, dPolls,
           dClock, dLast>>
xVars == <<iVars, qVars, pVars, lVars, aVars, dVars>>
vars == <<jA, jB, jOut, uSkill, uExisting, uOut, discovered, existing, ranked,
          catalog, clock, visits, gCaller, gAttempt, gNow, gTrace, gResult, gOut,
          kOptions, kToken, kPc, kIdx, kItems, kQueryIndex, kPageIndex,
          allItems, checkedRepos, disk, kLog, kOut,
          iMinScore, iOut, qOut, pPc, pCatalog, pDisk, pWriter, pClock, pLog,
          lPc, lBranch, lClock, lToken, lRequests, lOut,
          aSkill, aOut,
          dProc, dStatus, dStartedAt, dConfig, dLogs, dChildren, dTimers, dPolls,
          dClock, dLast>>

-----------------------------------------------------------------------------
(* Bounds of the model *)

MaxTokens == 3
MaxExisting == 2
MaxDiscovered == 2
MaxNewVisits == 2
MaxPriorVisits == 21

-----------------------------------------------------------------------------
(* JavaScript values *)

Undefined == [t |-> "undefined"]
Null == [t |-> "null"]
NaN == [t |-> "NaN"]
Num(n) == [t |-> "number", v |-> n]
IsNum(x) == x.t = "number"

\* a + b on numbers; undefined or NaN operands give NaN
JsAdd(a, b) == IF IsNum(a) /\ IsNum(b) THEN Num(a.v + b.v) ELSE NaN

\* a >= b; any comparison with NaN is false
JsGe(a, b) == IsNum(a) /\ IsNum(b) /\ a.v >= b.v

Min(a, b) == IF a < b THEN a ELSE b
Max(a, b) == IF a > b THEN a ELSE b

RECURSIVE SumLen(_)
SumLen(s) == IF s = <<>> THEN 0 ELSE Len(Head(s)) + SumLen(Tail(s))

\* String.prototype.length of a string given as its atoms
StrLen(s) == SumLen(s)

Separators == {" ", "-"}

\* template literal `${a} ${b}`
Join2(a, b) == a \o <<" ">> \o b

\* String.prototype.toLowerCase on one word
Lower(w) ==
    CASE w = "Data" -> "data"
      [] w = "Sync" -> "sync"
      [] w = "Tool" -> "tool"
      [] w = "Beta" -> "beta"
      [] OTHER -> w

RECURSIVE MapLower(_)
MapLower(s) == IF s = <<>> THEN <<>> ELSE <<Lower(Head(s))>> \o MapLower(Tail(s))

IsWord(a) == a \notin Separators

\* skill-utils tokenize: the lowercase words of a string, in order
tokenize(s) == MapLower(SelectSeq(s, IsWord))

Range(s) == {s[i] : i \in DOMAIN s}

-----------------------------------------------------------------------------
(* jaccardSimilarity: the quotient intersection / union is kept as the     *)
(* exact fraction n/d; the early return and union === 0 give 0/1.          *)

Frac(n, d) == [n |-> n, d |-> d]
FracGt(f, p, q) == f.n * q > p * f.d
FracEq(f, g) == f.n * g.d = g.n * f.d

\* variant: the intersection counted over the array, not over its Set
jaccardSimilarity_countsArray(tokensA, tokensB) ==
    IF Len(tokensA) = 0 \/ Len(tokensB) = 0 THEN Frac(0, 1)
    ELSE LET setA == Range(tokensA)
             setB == Range(tokensB)
             intersection == Cardinality({i \in DOMAIN tokensA : tokensA[i] \in setB})
             union == Cardinality(setA) + Cardinality(setB) - intersection
         IN  IF union = 0 THEN Frac(0, 1) ELSE Frac(intersection, union)

jaccardSimilarity(tokensA, tokensB) ==
    IF Len(tokensA) = 0 \/ Len(tokensB) = 0 THEN Frac(0, 1)
    ELSE LET setA == Range(tokensA)
             setB == Range(tokensB)
             intersection == Cardinality({tok \in setA : tok \in setB})
             union == Cardinality(setA) + Cardinality(setB) - intersection
         IN  IF union = 0 THEN Frac(0, 1) ELSE Frac(intersection, union)

-----------------------------------------------------------------------------
(* A body (skill.content) is a sequence of lines; a line is [kind, len],   *)
(* its kind deciding which of the ranker's regular expressions match it.   *)

RECURSIVE SumLineLen(_)
SumLineLen(c) == IF c = <<>> THEN 0 ELSE Head(c).len + SumLineLen(Tail(c))

\* body.length: the lines and the newlines between them
BodyLen(c) == IF c = <<>> THEN 0 ELSE SumLineLen(c) + (Len(c) - 1)

HasKind(c, kinds) == \E i \in DOMAIN c : c[i].kind \in kinds

\* /use\s+(this\s+)?skill\s+when/i  and  /##\s*use\s+when/i
MatchesUseWhen(c) == HasKind(c, {"skillWhen"}) \/ HasKind(c, {"h2UseWhen"})
\* /do\s+not\s+use/i
MatchesDoNotUse(c) == HasKind(c, {"doNotUse"})
\* /##\s*(instructions|steps|how to)/i
MatchesInstructions(c) == HasKind(c, {"h2Instructions"})
\* /```/
MatchesFence(c) == HasKind(c, {"fence"})
\* body.match(/^##\s/gm).length
SectionCount(c) ==
    Cardinality({i \in DOMAIN c :
        c[i].kind \in {"h2", "h2UseWhen", "h2Instructions", "h2Safety"}})
\* /references?\//i, /examples?\//i, /resources?\//i
MatchesRefs(c) == HasKind(c, {"refs"})
\* /##\s*safety/i
MatchesSafety(c) == HasKind(c, {"h2Safety"})

-----------------------------------------------------------------------------
(* The four sub-scores *)

scoreCompleteness(skill) ==
    LET s1 == IF skill.name # <<>> /\ skill.name # skill.id /\ StrLen(skill.name) > 2
              THEN 5 ELSE 0
        s2 == IF skill.description # <<>> /\ StrLen(skill.description) > 20 THEN 5
              ELSE IF skill.description # <<>> /\ StrLen(skill.description) > 0 THEN 2
              ELSE 0
        body == skill.content
        s3 == IF BodyLen(body) > 100 THEN 3 ELSE 0
        s4 == IF MatchesUseWhen(body) THEN 4 ELSE 0
        s5 == IF MatchesDoNotUse(body) THEN 3 ELSE 0
        s6 == IF MatchesInstructions(body) THEN 3 ELSE 0
        s7 == IF Len(skill.tags) > 0 THEN 2 ELSE 0
    IN  Min(s1 + s2 + s3 + s4 + s5 + s6 + s7, 25)

scoreQuality(skill) ==
    LET body == skill.content
        descLen == StrLen(skill.description)
        bodyLen == BodyLen(body)
        q1 == IF descLen > 100 THEN 5
              ELSE IF descLen > 50 THEN 3
              ELSE IF descLen > 20 THEN 1 ELSE 0
        q2 == IF bodyLen > 2000 THEN 5
              ELSE IF bodyLen > 1000 THEN 4
              ELSE IF bodyLen > 500 THEN 3
              ELSE IF bodyLen > 200 THEN 2 ELSE 0
        q3 == IF MatchesFence(body) THEN 4 ELSE 0
        sectionCount == SectionCount(body)
        q4 == IF sectionCount >= 4 THEN 4
              ELSE IF sectionCount >= 2 THEN 2
              ELSE IF sectionCount >= 1 THEN 1 ELSE 0
        q5 == IF MatchesRefs(body) THEN 3 ELSE 0
        q6 == IF MatchesSafety(body) THEN 2 ELSE 0
        q7 == IF Len(skill.parseErrors) = 0 THEN 2 ELSE 0
    IN  Min(q1 + q2 + q3 + q4 + q5 + q6 + q7, 25)

\* source.pushedAt is "" (falsy) or a date, kept as its age in days at the
\* time of ranking; monthsAgo = age / 30 days
scoreRepoSignals(skill) ==
    LET source == skill.source
        stars == source.stars
        forks == source.forks
        g1 == IF stars >= 500 THEN 8
              ELSE IF stars >= 100 THEN 6
              ELSE IF stars >= 50 THEN 5
              ELSE IF stars >= 10 THEN 3
              ELSE IF stars >= 1 THEN 1 ELSE 0
        g2 == IF forks >= 100 THEN 5
              ELSE IF forks >= 20 THEN 4
              ELSE IF forks >= 5 THEN 3
              ELSE IF forks >= 1 THEN 1 ELSE 0
        days == source.pushedAt.daysAgo
        g3 == IF source.pushedAt.t # "date" THEN 0
              ELSE IF days < 30 THEN 7
              ELSE IF days < 90 THEN 6
              ELSE IF days < 180 THEN 5
              ELSE IF days < 360 THEN 3
              ELSE IF days < 720 THEN 1 ELSE 0
        g4 == IF source.description # <<>> THEN 2 ELSE 0
    IN  Min(g1 + g2 + g3 + g4, 25)

-----------------------------------------------------------------------------
(* scoreUniqueness.  A discovered record's name and description are        *)
(* strings; an existing entry's may be missing (Undefined), read through   *)
(* `|| ''`.  The result is the bare number 25 for an empty catalog and an  *)
(* object {score, duplicateOf, isDuplicate} otherwise.                     *)

Str(s) == [t |-> "string", v |-> s]
Bool(b) == [t |-> "boolean", v |-> b]
OrEmpty(x) == IF x.t = "string" THEN x.v ELSE <<>>

UniquenessObject(score, duplicateOf, isDuplicate) ==
    [t |-> "object", score |-> Num(score), duplicateOf |-> duplicateOf,
     isDuplicate |-> Bool(isDuplicate)]

\* property read r.f: a number has no own properties
Prop(r, f) == IF r.t = "object" THEN r[f] ELSE Undefined

FracGe(f, p, q) == f.n * q >= p * f.d

\* variant: the thresholds taken inclusively
Thresholds_inclusive(maxSimilarity, bestMatchId) ==
    IF FracGe(maxSimilarity, 7, 10) THEN UniquenessObject(3, bestMatchId, TRUE)
    ELSE IF FracGe(maxSimilarity, 5, 10) THEN UniquenessObject(10, bestMatchId, FALSE)
    ELSE IF FracGe(maxSimilarity, 3, 10) THEN UniquenessObject(18, Null, FALSE)
    ELSE UniquenessObject(25, Null, FALSE)

\* variant: a flagged duplicate names no entry
Thresholds_noTarget(maxSimilarity, bestMatchId) ==
    IF FracGt(maxSimilarity, 7, 10) THEN UniquenessObject(3, Null, TRUE)
    ELSE IF FracGt(maxSimilarity, 5, 10) THEN UniquenessObject(10, bestMatchId, FALSE)
    ELSE IF FracGt(maxSimilarity, 3, 10) THEN UniquenessObject(18, Null, FALSE)
    ELSE UniquenessObject(25, Null, FALSE)

\* the threshold-based scoring after the loop
Thresholds(maxSimilarity, bestMatchId) ==
    IF FracGt(maxSimilarity, 7, 10) THEN UniquenessObject(3, bestMatchId, TRUE)
    ELSE IF FracGt(maxSimilarity, 5, 10) THEN UniquenessObject(10, bestMatchId, FALSE)
    ELSE IF FracGt(maxSimilarity, 3, 10) THEN UniquenessObject(18, Null, FALSE)
    ELSE UniquenessObject(25, Null, FALSE)

\* variant: the loop without the exact-id test
RECURSIVE UniquenessLoop_noIdTest(_, _, _, _, _, _)
UniquenessLoop_noIdTest(skillId, skillTokens, existingSkills, i, maxSimilarity, bestMatchId) ==
    IF i > Len(existingSkills) THEN Thresholds(maxSimilarity, bestMatchId)
    ELSE LET e == existingSkills[i]
             existingTokens == tokenize(Join2(OrEmpty(e.name), OrEmpty(e.description)))
             similarity == jaccardSimilarity(skillTokens, existingTokens)
             better == FracGt(similarity, maxSimilarity.n, maxSimilarity.d)
         IN  UniquenessLoop_noIdTest(skillId, skillTokens, existingSkills, i + 1,
                                     IF better THEN similarity ELSE maxSimilarity,
                                     IF better THEN Str(e.id) ELSE bestMatchId)

\* variant: an equally similar later entry replaces the best match
RECURSIVE UniquenessLoop_lastBestWins(_, _, _, _, _, _)
UniquenessLoop_lastBestWins(skillId, skillTokens, existingSkills, i, maxSimilarity, bestMatchId) ==
    IF i > Len(existingSkills) THEN Thresholds(maxSimilarity, bestMatchId)
    ELSE LET e == existingSkills[i]
             existingTokens == tokenize(Join2(OrEmpty(e.name), OrEmpty(e.description)))
             similarity == jaccardSimilarity(skillTokens, existingTokens)
             better == FracGe(similarity, maxSimilarity.n, maxSimilarity.d)
         IN  IF e.id = skillId THEN UniquenessObject(0, Str(e.id), TRUE)
             ELSE UniquenessLoop_lastBestWins(skillId, skillTokens, existingSkills, i + 1,
                                 IF better THEN similarity ELSE maxSimilarity,
                                 IF better THEN Str(e.id) ELSE bestMatchId)

\* the for-of loop over existingSkills from position i on
RECURSIVE UniquenessLoop(_, _, _, _, _, _)
UniquenessLoop(skillId, skillTokens, existingSkills, i, maxSimilarity, bestMatchId) ==
    IF i > Len(existingSkills) THEN Thresholds(maxSimilarity, bestMatchId)
    ELSE LET e == existingSkills[i]
             existingTokens == tokenize(Join2(OrEmpty(e.name), OrEmpty(e.description)))
             similarity == jaccardSimilarity(skillTokens, existingTokens)
             better == FracGt(similarity, maxSimilarity.n, maxSimilarity.d)
         IN  IF e.id = skillId THEN UniquenessObject(0, Str(e.id), TRUE)
             ELSE UniquenessLoop(skillId, skillTokens, existingSkills, i + 1,
                                 IF better THEN similarity ELSE maxSimilarity,
                                 IF better THEN Str(e.id) ELSE bestMatchId)

scoreUniqueness(skill, existingSkills) ==
    IF Len(existingSkills) = 0 THEN Num(25)
    ELSE UniquenessLoop(skill.id, tokenize(Join2(skill.name, skill.description)),
                        existingSkills, 1, Frac(0, 1), Null)

-----------------------------------------------------------------------------
(* assignTier, categorizeSkill, rankSkill, rankAll *)

\* variant: strict comparisons
assignTier_strict(score) ==
    IF JsGe(score, Num(76)) THEN "***"
    ELSE IF JsGe(score, Num(51)) THEN "**"
    ELSE IF JsGe(score, Num(26)) THEN "*"
    ELSE "hex"

assignTier(score) ==
    IF JsGe(score, Num(75)) THEN "***"
    ELSE IF JsGe(score, Num(50)) THEN "**"
    ELSE IF JsGe(score, Num(25)) THEN "*"
    ELSE "hex"

CATEGORY_RULES == <<
    [name |-> "security", keywords |-> {
        "security", "sast", "compliance", "privacy", "threat", "vulnerability", "owasp",
        "pci", "gdpr", "secrets", "risk", "malware", "forensics", "attack", "incident",
        "auth", "mtls", "zero", "trust"}],
    [name |-> "infrastructure", keywords |-> {
        "kubernetes", "k8s", "helm", "terraform", "cloud", "network", "devops", "gitops",
        "prometheus", "grafana", "observability", "monitoring", "logging", "tracing",
        "deployment", "istio", "linkerd", "service", "mesh", "slo", "sre", "oncall",
        "incident", "pipeline", "cicd", "ci", "cd", "kafka"}],
    [name |-> "data-ai", keywords |-> {
        "data", "database", "db", "sql", "postgres", "mysql", "analytics", "etl",
        "warehouse", "dbt", "ml", "ai", "llm", "rag", "vector", "embedding", "spark",
        "airflow", "cdc", "pipeline"}],
    [name |-> "development", keywords |-> {
        "python", "javascript", "typescript", "java", "golang", "go", "rust", "csharp",
        "dotnet", "php", "ruby", "node", "react", "frontend", "backend", "mobile", "ios",
        "android", "flutter", "fastapi", "django", "nextjs", "vue", "api"}],
    [name |-> "architecture", keywords |-> {
        "architecture", "c4", "microservices", "event", "cqrs", "saga", "domain", "ddd",
        "patterns", "decision", "adr"}],
    [name |-> "testing", keywords |-> {"testing", "tdd", "unit", "e2e", "qa", "test"}],
    [name |-> "business", keywords |-> {
        "business", "market", "sales", "finance", "startup", "legal", "hr", "product",
        "customer", "seo", "marketing", "kpi", "contract", "employment"}],
    [name |-> "workflow", keywords |-> {
        "workflow", "orchestration", "conductor", "automation", "process",
        "collaboration"}] >>

\* tags.join(' ')
RECURSIVE JoinTags(_)
JoinTags(tags) ==
    IF tags = <<>> THEN <<>>
    ELSE IF Len(tags) = 1 THEN Head(tags)
    ELSE Head(tags) \o <<" ">> \o JoinTags(Tail(tags))

\* variant: a later rule that matches replaces an earlier one
categorizeSkill_lastRule(skill) ==
    LET haystack == Range(tokenize(
            Join2(Join2(Join2(skill.id, skill.name), skill.description),
                  JoinTags(skill.tags))))
        hits == {r \in DOMAIN CATEGORY_RULES :
                    CATEGORY_RULES[r].keywords \cap haystack # {}}
    IN  IF hits = {} THEN "general"
        ELSE CATEGORY_RULES[CHOOSE r \in hits : \A q \in hits : r >= q].name

categorizeSkill(skill) ==
    LET haystack == Range(tokenize(
            Join2(Join2(Join2(skill.id, skill.name), skill.description),
                  JoinTags(skill.tags))))
        hits == {r \in DOMAIN CATEGORY_RULES :
                    CATEGORY_RULES[r].keywords \cap haystack # {}}
    IN  IF hits = {} THEN "general"
        ELSE CATEGORY_RULES[CHOOSE r \in hits : \A q \in hits : r <= q].name

rankSkill(skill, existingSkills) ==
    LET completeness == scoreCompleteness(skill)
        uniquenessResult == scoreUniqueness(skill, existingSkills)
        quality == scoreQuality(skill)
        repoSignals == scoreRepoSignals(skill)
        totalScore == JsAdd(JsAdd(JsAdd(Num(completeness), Prop(uniquenessResult, "score")),
                                  Num(quality)), Num(repoSignals))
    IN  [id |-> skill.id,
         name |-> skill.name,
         description |-> skill.description,
         category |-> categorizeSkill(skill),
         tags |-> skill.tags,
         source |-> skill.source,
         score |-> totalScore,
         tier |-> assignTier(totalScore),
         isDuplicate |-> Prop(uniquenessResult, "isDuplicate"),
         duplicateOf |-> Prop(uniquenessResult, "duplicateOf"),
         breakdown |-> [completeness |-> Num(completeness),
                        uniqueness |-> Prop(uniquenessResult, "score"),
                        quality |-> Num(quality),
                        repoSignals |-> Num(repoSignals)]]

\* The ids of the model in the collation order of String.prototype.localeCompare
\* (case is a tertiary difference: "alpha" sorts before "Beta")
LocaleOrder == << <<"alpha">>, <<"Beta">>, <<"data", "-", "sync">>, <<"tool">> >>

LocaleIndex(id) == CHOOSE i \in DOMAIN LocaleOrder : LocaleOrder[i] = id

localeCompare(a, b) == LocaleIndex(a) - LocaleIndex(b)

\* a - b on numbers; NaN when either is not a number
JsSub(a, b) == IF IsNum(a) /\ IsNum(b) THEN Num(a.v - b.v) ELSE NaN

\* (a, b) => b.score - a.score || a.id.localeCompare(b.id)
compareRanked(a, b) ==
    LET d == JsSub(b.score, a.score)
    IN  IF IsNum(d) /\ d.v # 0 THEN d.v ELSE localeCompare(a.id, b.id)

\* Array.prototype.sort is stable: x goes before the first element it
\* strictly precedes
RECURSIVE InsertRanked(_, _)
InsertRanked(x, sorted) ==
    IF sorted = <<>> THEN <<x>>
    ELSE IF compareRanked(x, Head(sorted)) < 0 THEN <<x>> \o sorted
    ELSE <<Head(sorted)>> \o InsertRanked(x, Tail(sorted))

RECURSIVE SortRanked(_)
SortRanked(s) ==
    IF s = <<>> THEN <<>>
    ELSE InsertRanked(s[Len(s)], SortRanked(SubSeq(s, 1, Len(s) - 1)))

RECURSIVE MapRank(_, _)
MapRank(discoveredSkills, existingSkills) ==
    IF discoveredSkills = <<>> THEN <<>>
    ELSE <<rankSkill(Head(discoveredSkills), existingSkills)>>
         \o MapRank(Tail(discoveredSkills), existingSkills)

rankAll(discoveredSkills, existingSkills) ==
    SortRanked(MapRank(discoveredSkills, existingSkills))

-----------------------------------------------------------------------------
(* repo-catalog.js: logRepoCheck.  catalog.repos is a function from the    *)
(* repository names it holds to their entries; `now` is the clock reading  *)
(* of the call.  In info, 0, the empty string and Undefined are falsy.     *)

CHECKS_KEPT == 20

OrChecked(status) == IF status.t = "string" THEN status.v ELSE "checked"

\* checks.slice(-n)
LastN(s, n) == IF Len(s) > n THEN SubSeq(s, Len(s) - n + 1, Len(s)) ELSE s

FirstN(s, n) == IF Len(s) > n THEN SubSeq(s, 1, n) ELSE s

\* variant: an update also restamps firstSeen
UpsertEntry_restampsFirstSeen(cat, repoName, info, now) ==
    [firstSeen |-> now,
     lastChecked |-> now,
     checks |-> IF repoName \in DOMAIN cat.repos THEN cat.repos[repoName].checks ELSE <<>>,
     stars |-> info.stars,
     forks |-> info.forks,
     description |-> info.description,
     url |-> <<"https://github.com/", repoName>>,
     skillCount |-> info.skillCount,
     skillIds |-> IF info.skillIds.t = "array" THEN info.skillIds.v ELSE <<>>,
     status |-> OrChecked(info.status)]

\* variant: a repeat visit assigns info's fields as the first visit does
UpsertEntry_overwrites(cat, repoName, info, now) ==
    [firstSeen |-> IF repoName \in DOMAIN cat.repos THEN cat.repos[repoName].firstSeen
                   ELSE now,
     lastChecked |-> now,
     checks |-> IF repoName \in DOMAIN cat.repos THEN cat.repos[repoName].checks ELSE <<>>,
     stars |-> info.stars,
     forks |-> info.forks,
     description |-> info.description,
     url |-> <<"https://github.com/", repoName>>,
     skillCount |-> info.skillCount,
     skillIds |-> IF info.skillIds.t = "array" THEN info.skillIds.v ELSE <<>>,
     status |-> OrChecked(info.status)]

\* lines 29-53: create the entry, or update the one the catalog holds
UpsertEntry(cat, repoName, info, now) ==
    IF repoName \notin DOMAIN cat.repos
    THEN [firstSeen |-> now,
          lastChecked |-> now,
          checks |-> <<>>,
          stars |-> info.stars,
          forks |-> info.forks,
          description |-> info.description,
          url |-> <<"https://github.com/", repoName>>,
          skillCount |-> info.skillCount,
          skillIds |-> IF info.skillIds.t = "array" THEN info.skillIds.v ELSE <<>>,
          status |-> OrChecked(info.status)]
    ELSE LET entry == cat.repos[repoName]
         IN  [entry EXCEPT
                !.lastChecked = now,
                !.stars = IF info.stars # 0 THEN info.stars ELSE entry.stars,
                !.forks = IF info.forks # 0 THEN info.forks ELSE entry.forks,
                !.description = IF info.description # <<>> THEN info.description
                                ELSE entry.description,
                !.skillCount = IF info.skillCount # 0 THEN info.skillCount
                               ELSE entry.skillCount,
                !.skillIds = IF info.skillIds.t = "array" /\ Len(info.skillIds.v) > 0
                             THEN info.skillIds.v ELSE entry.skillIds,
                !.status = OrChecked(info.status)]

\* lines 55-64: push the check, keep the last 20
\* variant: slice(0, 20)
TrimChecks_keepsOldest(checks) == FirstN(checks, CHECKS_KEPT)

TrimChecks(checks) == LastN(checks, CHECKS_KEPT)

CheckEvent(info, now) ==
    [timestamp |-> now, skillCount |-> info.skillCount, status |-> OrChecked(info.status)]

logRepoCheck(cat, repoName, info, now) ==
    LET entry == UpsertEntry(cat, repoName, info, now)
        checks == TrimChecks(Append(entry.checks, CheckEvent(info, now)))
        held == DOMAIN cat.repos \cup {repoName}
    IN  [cat EXCEPT !.repos =
            [r \in held |-> IF r = repoName THEN [entry EXCEPT !.checks = checks]
                            ELSE cat.repos[r]]]

\* loadRepoCatalog when no file exists
EmptyCatalog == [repos |-> <<>>, lastUpdated |-> Null]

\* variant: the file is never found
loadRepoCatalog_empty(file) == EmptyCatalog

\* file is Null when CATALOG_FILE does not exist, else the catalog that
\* saveRepoCatalog wrote
loadRepoCatalog(file) == IF file = Null THEN EmptyCatalog ELSE file

-----------------------------------------------------------------------------
(* repo-catalog.js: getStaleRepos and getCatalogStats.  An entry's         *)
(* lastChecked holds an instant; the program holds its toISOString text    *)
(* and compares the texts.  `names` is Object.keys(catalog.repos), the     *)
(* order in which the entries were created.                                *)

\* the clock counts hours: maxAgeHours * 60 * 60 * 1000 in its unit
HOUR == 1

\* the clock reading of 1970-01-01 is not the least text: earlier instants
\* have texts too
EPOCH == 50

\* Date.prototype.toISOString: a text of fixed width whose digits run from
\* the most significant
toISOString(instant) ==
    LET n == instant + EPOCH IN <<n \div 10, n % 10>>

\* a < b on strings: by the first position that differs, a proper prefix first
RECURSIVE StrLt(_, _)
StrLt(a, b) ==
    IF b = <<>> THEN FALSE
    ELSE IF a = <<>> THEN TRUE
    ELSE IF Head(a) # Head(b) THEN Head(a) < Head(b)
    ELSE StrLt(Tail(a), Tail(b))

\* a.lastChecked.localeCompare(b.lastChecked) on two such texts
compareLastChecked(a, b) ==
    IF StrLt(toISOString(a.lastChecked), toISOString(b.lastChecked)) THEN -1
    ELSE IF StrLt(toISOString(b.lastChecked), toISOString(a.lastChecked)) THEN 1
    ELSE 0

\* Array.prototype.sort is stable
RECURSIVE InsertStale(_, _)
InsertStale(x, sorted) ==
    IF sorted = <<>> THEN <<x>>
    ELSE IF compareLastChecked(x, Head(sorted)) < 0 THEN <<x>> \o sorted
    ELSE <<Head(sorted)>> \o InsertStale(x, Tail(sorted))

RECURSIVE SortStale(_)
SortStale(s) ==
    IF s = <<>> THEN <<>>
    ELSE InsertStale(s[Len(s)], SortStale(SubSeq(s, 1, Len(s) - 1)))

\* lines 76-80: { name, ...entry } of the entries checked before the cutoff
RECURSIVE StaleEntries(_, _, _)
StaleEntries(cat, names, cutoff) ==
    IF names = <<>> THEN <<>>
    ELSE LET entry == cat.repos[Head(names)]
             rest == StaleEntries(cat, Tail(names), cutoff)
         IN  IF StrLt(toISOString(entry.lastChecked), cutoff)
             THEN <<[name |-> Head(names), entry |-> entry,
                     lastChecked |-> entry.lastChecked]>> \o rest
             ELSE rest

\* variant: the array is returned as the loop filled it
getStaleRepos_unsorted(cat, names, maxAgeHours, now) ==
    StaleEntries(cat, names, toISOString(now - maxAgeHours * HOUR))

getStaleRepos(cat, names, maxAgeHours, now) ==
    LET cutoff == toISOString(now - maxAgeHours * HOUR)
    IN  SortStale(StaleEntries(cat, names, cutoff))

\* entry.skillCount || 0 of the entries, in order
SkillCounts(cat, names) == [i \in DOMAIN names |-> cat.repos[names[i]].skillCount]

RECURSIVE SumSeq(_)
SumSeq(s) == IF s = <<>> THEN 0 ELSE Head(s) + SumSeq(Tail(s))

\* lines 97-100: the loop over the entries, from oldestCheck = null
RECURSIVE OldestCheck(_, _, _)
OldestCheck(cat, names, oldestCheck) ==
    IF names = <<>> THEN oldestCheck
    ELSE LET lastChecked == toISOString(cat.repos[Head(names)].lastChecked)
         IN  OldestCheck(cat, Tail(names),
                 IF oldestCheck.t = "null" \/ StrLt(lastChecked, oldestCheck.v)
                 THEN Str(lastChecked) ELSE oldestCheck)

RECURSIVE NewestCheck(_, _, _)
NewestCheck(cat, names, newestCheck) ==
    IF names = <<>> THEN newestCheck
    ELSE LET lastChecked == toISOString(cat.repos[Head(names)].lastChecked)
         IN  NewestCheck(cat, Tail(names),
                 IF newestCheck.t = "null" \/ StrLt(newestCheck.v, lastChecked)
                 THEN Str(lastChecked) ELSE newestCheck)

\* variant: emptyRepos counts the entries that have no skillIds
getCatalogStats_emptyByIds(cat, names) ==
    LET counts == SkillCounts(cat, names)
    IN  [totalRepos |-> Len(names),
         reposWithSkills |-> Len(SelectSeq(counts, LAMBDA c : c > 0)),
         emptyRepos |-> Cardinality({i \in DOMAIN names :
                                        cat.repos[names[i]].skillIds = <<>>}),
         totalSkills |-> SumSeq(counts),
         oldestCheck |-> OldestCheck(cat, names, Null),
         newestCheck |-> NewestCheck(cat, names, Null),
         lastUpdated |-> cat.lastUpdated]

getCatalogStats(cat, names) ==
    LET counts == SkillCounts(cat, names)
    IN  [totalRepos |-> Len(names),
         reposWithSkills |-> Len(SelectSeq(counts, LAMBDA c : c > 0)),
         emptyRepos |-> Len(SelectSeq(counts, LAMBDA c : c = 0)),
         totalSkills |-> SumSeq(counts),
         oldestCheck |-> OldestCheck(cat, names, Null),
         newestCheck |-> NewestCheck(cat, names, Null),
         lastUpdated |-> cat.lastUpdated]

-----------------------------------------------------------------------------
(* Inputs *)

\* the sequences over S of length at most n
BSeq(S, n) == UNION {[1..k -> S] : k \in 0..n}

Pending == [state |-> "pending"]
Done(v) == [state |-> "done", out |-> v]

\* words joined by single spaces
RECURSIVE Sentence(_)
Sentence(words) ==
    IF words = <<>> THEN <<>>
    ELSE IF Len(words) = 1 THEN words
    ELSE <<Head(words), " ">> \o Sentence(Tail(words))

V10 == <<"data", "sync", "tool", "for", "fast", "api", "test", "cloud", "auth", "flow">>

JVocab == {"data", "sync", "tool"}

\* name "Data Sync" and a description of the words 3..k of V10: the tokens
\* of name + description are the first k words of V10
Text(k) == [name |-> <<"Data", " ", "Sync">>, description |-> Sentence(SubSeq(V10, 3, k))]
NoText == [name |-> <<>>, description |-> <<>>]

UIds == { <<"alpha">>, <<"Beta">>, <<"data", "-", "sync">> }

USkillTexts == {Text(10), Text(5), Text(3), NoText}
\* the tokens of Text(5) under another name string
SwappedText == [name |-> <<"sync", " ", "data">>, description |-> Text(5).description]

UEntryTexts == {Text(10), Text(7), Text(5), SwappedText, Text(3), NoText}

USkills == {[id |-> i, name |-> x.name, description |-> x.description] :
                i \in UIds, x \in USkillTexts}

\* an existing entry: name and description are strings or missing
UEntries ==
    {[id |-> i, name |-> Str(x.name), description |-> Str(x.description)] :
        i \in UIds, x \in UEntryTexts}
    \cup {[id |-> i, name |-> Undefined, description |-> Undefined] : i \in UIds}

LongDescription == Sentence(V10) \o <<" ">> \o Sentence(V10) \o <<" ">> \o Sentence(V10)

RichContent == <<
    [kind |-> "h2UseWhen", len |-> 11], [kind |-> "skillWhen", len |-> 40],
    [kind |-> "doNotUse", len |-> 30], [kind |-> "h2Instructions", len |-> 15],
    [kind |-> "fence", len |-> 5], [kind |-> "prose", len |-> 2200],
    [kind |-> "fence", len |-> 3], [kind |-> "refs", len |-> 30],
    [kind |-> "h2Safety", len |-> 9], [kind |-> "h2", len |-> 11] >>

MidContent == <<
    [kind |-> "h2Instructions", len |-> 15], [kind |-> "prose", len |-> 300] >>

RichSkill(id) ==
    [id |-> id, name |-> <<"Data", " ", "Sync">>, description |-> LongDescription,
     tags |-> << <<"api">>, <<"Tool">> >>, content |-> RichContent,
     source |-> [stars |-> 600, forks |-> 120,
                 pushedAt |-> [t |-> "date", daysAgo |-> 10],
                 description |-> <<"skills">>],
     parseErrors |-> <<>>]

MidSkill(id) ==
    [id |-> id, name |-> <<"Tool">>, description |-> Sentence(SubSeq(V10, 1, 5)),
     tags |-> <<>>, content |-> MidContent,
     source |-> [stars |-> 12, forks |-> 0,
                 pushedAt |-> [t |-> "date", daysAgo |-> 200],
                 description |-> <<>>],
     parseErrors |-> <<>>]

\* a document without front matter: the name falls back to the directory name
PoorSkill(id) ==
    [id |-> id, name |-> id, description |-> <<>>,
     tags |-> <<>>, content |-> <<>>,
     source |-> [stars |-> 0, forks |-> 0, pushedAt |-> Null, description |-> <<>>],
     parseErrors |-> <<"frontmatter">>]

RSkills == UNION {{RichSkill(i), MidSkill(i), PoorSkill(i)} : i \in UIds}

REntries == {
    [id |-> <<"tool">>, name |-> Str(<<"Data", " ", "Sync">>),
     description |-> Str(LongDescription)],
    [id |-> <<"alpha">>, name |-> Str(<<"alpha">>), description |-> Undefined],
    [id |-> <<"flow">>, name |-> Str(<<"Tool">>),
     description |-> Str(Sentence(SubSeq(V10, 1, 7)))] }

Repos == {"octo/skills", "acme/tools"}

InfoHasSkills ==
    [stars |-> 5, forks |-> 2, description |-> <<"skills">>, skillCount |-> 2,
     skillIds |-> [t |-> "array", v |-> << <<"alpha">>, <<"Beta">> >>],
     status |-> Str("has-skills")]

InfoNoSkills ==
    [stars |-> 0, forks |-> 0, description |-> <<>>, skillCount |-> 0,
     skillIds |-> [t |-> "array", v |-> <<>>], status |-> Str("no-skills")]

\* the content-search phase passes no skillIds
InfoCodeSearch ==
    [stars |-> 7, forks |-> 0, description |-> <<>>, skillCount |-> 1,
     skillIds |-> Undefined, status |-> Str("has-skills")]

Infos == {InfoHasSkills, InfoNoSkills, InfoCodeSearch}

-----------------------------------------------------------------------------
(* Specification of jaccardSimilarity on bounded token arrays *)

JIdle == jA = <<>> /\ jB = <<>> /\ jOut = Pending
UIdle == uSkill = [id |-> <<"alpha">>, name |-> <<>>, description |-> <<>>]
         /\ uExisting = <<>> /\ uOut = Pending
RIdle == discovered = <<>> /\ existing = <<>> /\ ranked = Pending
CIdle == catalog = EmptyCatalog /\ clock = 0 /\ visits = <<>>
GIdle == gCaller = "searchRepos" /\ gAttempt = 0 /\ gNow = 0 /\ gTrace = <<>>
         /\ gResult = Pending /\ gOut = Pending
KIdle == /\ kOptions = [limit |-> 1, durationMs |-> 0, queries |-> <<>>]
         /\ kToken = FALSE /\ kPc = "idle" /\ kIdx = 1 /\ kItems = <<>>
         /\ kQueryIndex = 0 /\ kPageIndex = 1 /\ allItems = <<>>
         /\ checkedRepos = {} /\ disk = EmptyCatalog /\ kLog = <<>> /\ kOut = Pending
IIdle == iMinScore = 0 /\ iOut = Pending
QIdle == qOut = Pending
PIdle == /\ pPc = <<>> /\ pCatalog = <<>> /\ pDisk = Null
         /\ pWriter = 0 /\ pClock = 0 /\ pLog = <<>>
LIdle == /\ lPc = "idle" /\ lBranch = "main" /\ lClock = 0 /\ lToken = FALSE
         /\ lRequests = <<>> /\ lOut = Pending
AIdle == aSkill = <<>> /\ aOut = Pending
DIdle == dProc = 0 /\ dStatus = "idle" /\ dStartedAt = 0 /\ dConfig = <<>> /\ dLogs = <<>>
         /\ dChildren = <<>> /\ dTimers = <<>> /\ dPolls = <<>> /\ dClock = 0
         /\ dLast = <<>>
XIdle == IIdle /\ QIdle /\ PIdle /\ LIdle /\ AIdle /\ DIdle

InitJaccard ==
    /\ jA \in BSeq(JVocab, MaxTokens)
    /\ jB \in BSeq(JVocab, MaxTokens)
    /\ jOut = Pending
    /\ UIdle /\ RIdle /\ CIdle /\ GIdle /\ KIdle /\ XIdle

JaccardCall ==
    /\ jOut = Pending
    /\ jOut' = Done(jaccardSimilarity(jA, jB))
    /\ UNCHANGED <<jA, jB, uVars, rVars, cVars, gVars, kVars, xVars>>

SpecJaccard == InitJaccard /\ [][JaccardCall]_vars

-----------------------------------------------------------------------------
(* Specification of scoreUniqueness on one record and a bounded catalog *)

InitUniqueness ==
    /\ uSkill \in USkills
    /\ uExisting \in BSeq(UEntries, MaxExisting)
    /\ uOut = Pending
    /\ JIdle /\ RIdle /\ CIdle /\ GIdle /\ KIdle /\ XIdle

ScoreUniquenessCall ==
    /\ uOut = Pending
    /\ uOut' = Done(scoreUniqueness(uSkill, uExisting))
    /\ UNCHANGED <<uSkill, uExisting, jVars, rVars, cVars, gVars, kVars, xVars>>

SpecUniqueness == InitUniqueness /\ [][ScoreUniquenessCall]_vars

-----------------------------------------------------------------------------
(* Specification of rankAll on a bounded discovered list and catalog *)

Init ==
    /\ discovered \in BSeq(RSkills, MaxDiscovered)
    /\ existing \in BSeq(REntries, MaxExisting)
    /\ ranked = Pending
    /\ JIdle /\ UIdle /\ CIdle /\ GIdle /\ KIdle /\ XIdle

RankAllCall ==
    /\ ranked = Pending
    /\ ranked' = Done(rankAll(discovered, existing))
    /\ UNCHANGED <<discovered, existing, jVars, uVars, cVars, gVars, kVars, xVars>>

Next == RankAllCall

Spec == Init /\ [][Next]_vars

-----------------------------------------------------------------------------
(* consolidate.js: consolidate.  discoveredSkills is what discoverSkills   *)
(* resolved to, existingSkills what loadExistingCatalog read, minScore the *)
(* value of options.minScore || 0.  The inventory keeps the fields that    *)
(* depend on the ranking.                                                  *)

\* ranked.filter((s) => s.score >= minScore)
FilterByScore(rankedSkills, minScore) ==
    SelectSeq(rankedSkills, LAMBDA s : JsGe(s.score, Num(minScore)))

consolidate(discoveredSkills, existingSkills, minScore) ==
    IF Len(discoveredSkills) = 0 THEN Null
    ELSE LET all == rankAll(discoveredSkills, existingSkills)
             kept == IF minScore > 0 THEN FilterByScore(all, minScore) ELSE all
         IN  [totalDiscovered |-> Len(kept), skills |-> kept]

\* values of --min-score: none, one some scores reach, one no score reaches
MinScores == {0, 50, 101}

InitConsolidate ==
    /\ discovered \in BSeq(RSkills, MaxDiscovered)
    /\ existing \in BSeq(REntries, MaxExisting)
    /\ ranked = Pending
    /\ iMinScore \in MinScores
    /\ iOut = Pending
    /\ JIdle /\ UIdle /\ CIdle /\ GIdle /\ KIdle /\ QIdle /\ PIdle /\ LIdle /\ AIdle /\ DIdle

ConsolidateCall ==
    /\ iOut = Pending
    /\ iOut' = Done(consolidate(discovered, existing, iMinScore))
    /\ UNCHANGED <<iMinScore, rVars, jVars, uVars, cVars, gVars, kVars, qVars, pVars, lVars, aVars, dVars>>

NextConsolidate == ConsolidateCall

SpecConsolidate == InitConsolidate /\ [][NextConsolidate]_vars

-----------------------------------------------------------------------------
(* Specification of the repository catalog under recordVisit calls.  The   *)
(* catalog loaded at start is one that earlier runs wrote: the log of k    *)
(* visits to one repository.                                               *)

PriorInfo(k) == IF k % 2 = 1 THEN InfoHasSkills ELSE InfoNoSkills

RECURSIVE PriorCatalog(_)
PriorCatalog(k) ==
    IF k = 0 THEN EmptyCatalog
    ELSE logRepoCheck(PriorCatalog(k - 1), "octo/skills", PriorInfo(k), k)

PriorVisits(k) ==
    [i \in 1..k |-> [repo |-> "octo/skills", info |-> PriorInfo(i), at |-> i,
                     prior |-> TRUE]]

NewVisits == Cardinality({i \in DOMAIN visits : ~visits[i].prior})

InitCatalog ==
    /\ \E k \in 0..MaxPriorVisits :
        /\ catalog = PriorCatalog(k)
        /\ visits = PriorVisits(k)
        /\ clock = k
    /\ JIdle /\ UIdle /\ RIdle /\ GIdle /\ KIdle /\ XIdle

\* one logRepoCheck call; the clock may not have advanced since the last one
RecordVisit(repoName, info, tick) ==
    /\ NewVisits < MaxNewVisits
    /\ clock' = clock + tick
    /\ catalog' = logRepoCheck(catalog, repoName, info, clock')
    /\ visits' = Append(visits, [repo |-> repoName, info |-> info, at |-> clock',
                                 prior |-> FALSE])
    /\ UNCHANGED <<jVars, uVars, rVars, gVars, kVars, xVars>>

\* Object.keys(catalog.repos): the repositories in the order of their first visit
RECURSIVE KeysOf(_)
KeysOf(vs) ==
    IF vs = <<>> THEN <<>>
    ELSE LET before == KeysOf(SubSeq(vs, 1, Len(vs) - 1))
             repo == vs[Len(vs)].repo
         IN  IF repo \in Range(before) THEN before ELSE Append(before, repo)

\* --stale with the default of 24 hours, and other ages
MaxAges == {-1, 0, 1, 2, 24}

GetStaleReposCall(maxAgeHours) ==
    /\ qOut = Pending
    /\ qOut' = Done([call |-> "getStaleRepos", maxAgeHours |-> maxAgeHours, now |-> clock,
                     result |-> getStaleRepos(catalog, KeysOf(visits), maxAgeHours, clock)])
    /\ UNCHANGED <<cVars, jVars, uVars, rVars, gVars, kVars, iVars, pVars, lVars, aVars, dVars>>

GetCatalogStatsCall ==
    /\ qOut = Pending
    /\ qOut' = Done([call |-> "getCatalogStats",
                     result |-> getCatalogStats(catalog, KeysOf(visits))])
    /\ UNCHANGED <<cVars, jVars, uVars, rVars, gVars, kVars, iVars, pVars, lVars, aVars, dVars>>

NextCatalog ==
    \/ \E r \in Repos, info \in Infos, tick \in {0, 1} : RecordVisit(r, info, tick)
    \/ \E maxAgeHours \in MaxAges : GetStaleReposCall(maxAgeHours)
    \/ GetCatalogStatsCall

SpecCatalog == InitCatalog /\ [][NextCatalog]_vars

-----------------------------------------------------------------------------
(* github-scanner.js: the GitHub client.  httpsGet resolves with a         *)
(* response {statusCode, body, rateLimitRemaining, rateLimitReset} or      *)
(* rejects with a connection error.  A body is the parsed JSON document.   *)
(* Times are milliseconds; rateLimitReset is in seconds.                   *)

RETRIES == 2

Response(statusCode, body, remaining, reset) ==
    [t |-> "response", statusCode |-> statusCode, body |-> body,
     rateLimitRemaining |-> remaining, rateLimitReset |-> reset]

ConnectionError == [t |-> "error", code |-> "ECONNRESET"]

Return(v) == [t |-> "return", v |-> v]
Throw(message) == [t |-> "throw", message |-> message]

RateLimited(result) == result.statusCode = 403 /\ result.rateLimitRemaining = 0

WaitMs(result, now) == Max(result.rateLimitReset * 1000 - now, 1000)

\* variant: a constant delay before every retry
Backoff_constant(attempt) == 2000

Backoff(attempt) == 2000 * (attempt + 1)

EmptyItemsBody == [items |-> <<>>]

\* variant: a rate-limited response is retried whatever the attempt
rateLimitedGetStep_noBudget(attempt, result, now) ==
    IF result.t = "error" THEN [kind |-> "done", outcome |-> Throw(result.code)]
    ELSE IF RateLimited(result)
    THEN [kind |-> "continue", sleep |-> WaitMs(result, now)]
    ELSE IF result.statusCode = 422
    THEN [kind |-> "done",
          outcome |-> Return([t |-> "response", statusCode |-> 422,
                              body |-> EmptyItemsBody,
                              rateLimitRemaining |-> result.rateLimitRemaining])]
    ELSE IF result.statusCode >= 500 /\ attempt < RETRIES
    THEN [kind |-> "continue", sleep |-> Backoff(attempt)]
    ELSE [kind |-> "done", outcome |-> Return(result)]

\* variant: a 5xx response is retried on the last attempt too
rateLimitedGetStep_retriesLast(attempt, result, now) ==
    IF result.t = "error" THEN [kind |-> "done", outcome |-> Throw(result.code)]
    ELSE IF RateLimited(result)
    THEN IF attempt < RETRIES
         THEN [kind |-> "continue", sleep |-> WaitMs(result, now)]
         ELSE [kind |-> "done", outcome |-> Throw("rate limit exceeded")]
    ELSE IF result.statusCode = 422
    THEN [kind |-> "done",
          outcome |-> Return([t |-> "response", statusCode |-> 422,
                              body |-> EmptyItemsBody,
                              rateLimitRemaining |-> result.rateLimitRemaining])]
    ELSE IF result.statusCode >= 500
    THEN [kind |-> "continue", sleep |-> Backoff(attempt)]
    ELSE [kind |-> "done", outcome |-> Return(result)]

\* one iteration of the loop of rateLimitedGet on what httpsGet gave
rateLimitedGetStep(attempt, result, now) ==
    IF result.t = "error"
    THEN [kind |-> "done", outcome |-> Throw(result.code)]
    ELSE IF RateLimited(result)
    THEN IF attempt < RETRIES
         THEN [kind |-> "continue", sleep |-> WaitMs(result, now)]
         ELSE [kind |-> "done", outcome |-> Throw("rate limit exceeded")]
    ELSE IF result.statusCode = 422
    THEN [kind |-> "done",
          outcome |-> Return([t |-> "response", statusCode |-> 422,
                              body |-> EmptyItemsBody,
                              rateLimitRemaining |-> result.rateLimitRemaining])]
    ELSE IF result.statusCode >= 500 /\ attempt < RETRIES
    THEN [kind |-> "continue", sleep |-> Backoff(attempt)]
    ELSE [kind |-> "done", outcome |-> Return(result)]

Field(r, f, default) == IF f \in DOMAIN r THEN r[f] ELSE default

\* searchRepos on the outcome of rateLimitedGet
searchRepos(outcome) ==
    IF outcome.t = "throw" THEN outcome
    ELSE IF outcome.v.statusCode # 200
    THEN Throw(<<"GitHub Repository Search API returned", outcome.v.statusCode>>)
    ELSE Return([totalCount |-> Field(outcome.v.body, "total_count", 0),
                 items |-> Field(outcome.v.body, "items", <<>>)])

RepoInfoDefaults ==
    [stars |-> 0, forks |-> 0, pushedAt |-> Null, description |-> <<>>,
     defaultBranch |-> "main"]

\* fetchRepoInfo on the outcome of rateLimitedGet
fetchRepoInfo(outcome) ==
    IF outcome.t = "throw" THEN outcome
    ELSE IF outcome.v.statusCode # 200 THEN Return(RepoInfoDefaults)
    ELSE Return([stars |-> Field(outcome.v.body, "stargazers_count", 0),
                 forks |-> Field(outcome.v.body, "forks_count", 0),
                 pushedAt |-> Field(outcome.v.body, "pushed_at", Null),
                 description |-> Field(outcome.v.body, "description", <<>>),
                 defaultBranch |-> Field(outcome.v.body, "default_branch", "main")])

\* fetchFileContent on the outcome of rateLimitedGet; the decoded
\* base64 content is a string
fetchFileContent(outcome) ==
    IF outcome.t = "throw" THEN outcome
    ELSE IF outcome.v.statusCode # 200 THEN Return(Null)
    ELSE IF Field(outcome.v.body, "content", <<>>) = <<>> THEN Return(Null)
    ELSE Return(Str(outcome.v.body.content))

Callers == {"searchRepos", "fetchRepoInfo", "fetchFileContent"}

CallerOutcome(caller, outcome) ==
    IF caller = "searchRepos" THEN searchRepos(outcome)
    ELSE IF caller = "fetchRepoInfo" THEN fetchRepoInfo(outcome)
    ELSE fetchFileContent(outcome)

-----------------------------------------------------------------------------
(* github-scanner.js: the crawler.  A path is the sequence of its          *)
(* segments; an item of the result is {repo, path}.  options is            *)
(* {limit, durationMs, queries}, and token tells whether GITHUB_TOKEN is   *)
(* set.                                                                    *)

KNOWN_SKILL_REPOS == <<"wshobson/agents", "rmyndharis/antigravity-skills">>

CODE_QUERIES == <<"filename:SKILL.md path:skills", "filename:SKILL.md description:">>

DEFAULT_LIMIT == 30
CODE_PER_PAGE == 30
MAX_PAGE == 5
CYCLE_PAUSE == 60000
COOLDOWN == 30000

MaxResultsOf(options) == IF options.limit # 0 THEN options.limit ELSE DEFAULT_LIMIT

isTimeUp(startTime, durationMs, now) ==
    IF durationMs = 0 THEN FALSE ELSE now - startTime >= durationMs

getDelay(isSearch, token) ==
    IF token THEN (IF isSearch THEN 2200 ELSE 800)
    ELSE (IF isSearch THEN 6500 ELSE 2000)

saveRepoCatalog(cat, now) == [cat EXCEPT !.lastUpdated = Num(now)]

\* parts.length > 1 ? parts[parts.length - 2] : the path itself
SkillIdOf(path) == IF Len(path) > 1 THEN path[Len(path) - 1] ELSE path[1]

RECURSIVE MapSkillIds(_)
MapSkillIds(files) ==
    IF files = <<>> THEN <<>>
    ELSE <<SkillIdOf(Head(files))>> \o MapSkillIds(Tail(files))

ScanInfo(repoInfo, skillFiles) ==
    [stars |-> repoInfo.stars,
     forks |-> repoInfo.forks,
     description |-> repoInfo.description,
     skillCount |-> Len(skillFiles),
     skillIds |-> [t |-> "array", v |-> MapSkillIds(skillFiles)],
     status |-> IF Len(skillFiles) > 0 THEN Str("has-skills") ELSE Str("no-skills")]

\* variant: the visit is logged in memory and the file is left as it was
scanSingleRepo_noSave(cat, repoName, fetched, now, token) ==
    LET delay == getDelay(FALSE, token)
    IN  IF fetched.repoInfo.t = "throw"
        THEN [threw |-> TRUE, elapsed |-> 0]
        ELSE IF fetched.skillFiles.t = "throw"
        THEN [threw |-> TRUE, elapsed |-> delay]
        ELSE LET info == ScanInfo(fetched.repoInfo.v, fetched.skillFiles.v)
                 at == now + 2 * delay
                 logged == logRepoCheck(cat, repoName, info, at)
             IN  [threw |-> FALSE, elapsed |-> 2 * delay, at |-> at, info |-> info,
                  catalog |-> logged, file |-> cat,
                  repoInfo |-> fetched.repoInfo.v,
                  skillFiles |-> fetched.skillFiles.v]

\* scanSingleRepo on what fetchRepoInfo and listSkillFiles return or throw
scanSingleRepo(cat, repoName, fetched, now, token) ==
    LET delay == getDelay(FALSE, token)
    IN  IF fetched.repoInfo.t = "throw"
        THEN [threw |-> TRUE, elapsed |-> 0]
        ELSE IF fetched.skillFiles.t = "throw"
        THEN [threw |-> TRUE, elapsed |-> delay]
        ELSE LET info == ScanInfo(fetched.repoInfo.v, fetched.skillFiles.v)
                 at == now + 2 * delay
                 logged == logRepoCheck(cat, repoName, info, at)
                 saved == saveRepoCatalog(logged, at)
             IN  [threw |-> FALSE, elapsed |-> 2 * delay, at |-> at, info |-> info,
                  catalog |-> saved, file |-> saved,
                  repoInfo |-> fetched.repoInfo.v,
                  skillFiles |-> fetched.skillFiles.v]

\* for (const file of skillFiles) { if (allItems.length >= maxResults) break; push }
RECURSIVE PushFiles(_, _, _, _)
PushFiles(items, repoName, skillFiles, maxResults) ==
    IF skillFiles = <<>> \/ Len(items) >= maxResults THEN items
    ELSE PushFiles(Append(items, [repo |-> repoName, path |-> Head(skillFiles)]),
                   repoName, Tail(skillFiles), maxResults)

\* the content-search phase logs the repository of a new item
CodeSearchInfo(repoInfo) ==
    [stars |-> repoInfo.stars,
     forks |-> repoInfo.forks,
     description |-> repoInfo.description,
     skillCount |-> 1,
     skillIds |-> Undefined,
     status |-> Str("has-skills")]

\* variant: no item counts as collected
HasKey_never(items, item) == FALSE

HasKey(items, item) ==
    \E i \in DOMAIN items : items[i].repo = item.repo /\ items[i].path = item.path

-----------------------------------------------------------------------------
(* Specification of one client call: the responses of GitHub are chosen    *)
(* request by request.                                                     *)

StartTime == 60000

OkBodies(caller) ==
    IF caller = "searchRepos"
    THEN {[total_count |-> 1, items |-> <<"octo/skills">>], [total_count |-> 0]}
    ELSE IF caller = "fetchFileContent"
    THEN {[name |-> "SKILL.md", content |-> <<"name", " ", "alpha">>],
          [name |-> "SKILL.md"]}
    ELSE {[stargazers_count |-> 7, forks_count |-> 2, default_branch |-> "master"],
          [forks_count |-> 0]}

ErrorBody == [message |-> "error"]

\* x-ratelimit-reset: absent (0), just passed, three seconds ahead
Resets(now) == {0, (now \div 1000) - 1, (now \div 1000) + 3}

Responses(caller, now) ==
    {Response(200, b, rem, 0) : b \in OkBodies(caller), rem \in {999, 5}}
    \cup {Response(403, ErrorBody, 0, reset) : reset \in Resets(now)}
    \cup {Response(st, ErrorBody, 999, 0) : st \in {403, 404, 422, 500, 503}}
    \cup {ConnectionError}

InitClient ==
    /\ gCaller \in Callers
    /\ gAttempt = 0
    /\ gNow = StartTime
    /\ gTrace = <<>>
    /\ gResult = Pending
    /\ gOut = Pending
    /\ JIdle /\ UIdle /\ RIdle /\ CIdle /\ KIdle /\ XIdle

\* one iteration of rateLimitedGet: the request, and the sleep before the
\* next one when it is retried
Attempt(result) ==
    /\ gResult = Pending
    /\ gAttempt <= RETRIES
    /\ LET step == rateLimitedGetStep(gAttempt, result, gNow)
       IN  IF step.kind = "continue"
           THEN /\ gAttempt' = gAttempt + 1
                /\ gNow' = gNow + step.sleep
                /\ gTrace' = Append(gTrace, [result |-> result, at |-> gNow,
                                             sleep |-> step.sleep])
                /\ UNCHANGED gResult
           ELSE /\ gResult' = Done(step.outcome)
                /\ gTrace' = Append(gTrace, [result |-> result, at |-> gNow,
                                             sleep |-> 0])
                /\ UNCHANGED <<gAttempt, gNow>>
    /\ UNCHANGED <<gCaller, gOut, jVars, uVars, rVars, cVars, kVars, xVars>>

\* the caller resumes on what rateLimitedGet returned or threw
CallerResume ==
    /\ gResult # Pending
    /\ gOut = Pending
    /\ gOut' = Done(CallerOutcome(gCaller, gResult.out))
    /\ UNCHANGED <<gCaller, gAttempt, gNow, gTrace, gResult, jVars, uVars, rVars, cVars,
                   kVars, xVars>>

NextClient ==
    \/ \E result \in Responses(gCaller, gNow) : Attempt(result)
    \/ CallerResume

SpecClient == InitClient /\ [][NextClient]_vars

-----------------------------------------------------------------------------
(* Specification of one run of searchForSkillRepos.  GitHub is a fixed     *)
(* set of repositories; what each request returns or throws is chosen      *)
(* request by request.  A request takes no time, a sleep takes its delay.  *)

MaxLimit == 3

OtherRepos == <<"octo/skills", "acme/tools">>

RepoFiles(repoName) ==
    IF repoName = KNOWN_SKILL_REPOS[1]
    THEN <<<<"skills", "a", "SKILL.md">>, <<"skills", "b", "SKILL.md">>>>
    ELSE IF repoName = OtherRepos[1] THEN <<<<"skills", "c", "SKILL.md">>>>
    ELSE IF repoName = OtherRepos[2] THEN <<<<"SKILL.md">>>>
    ELSE <<>>

\* what the repository search lists on a page, whatever the query
SearchPage(page) ==
    IF page = 1 THEN <<KNOWN_SKILL_REPOS[1], OtherRepos[1]>>
    ELSE IF page = 2 THEN <<OtherRepos[1], OtherRepos[2]>>
    ELSE <<>>

\* what the content search lists
CodeItems ==
    <<[repo |-> KNOWN_SKILL_REPOS[1], path |-> <<"skills", "a", "SKILL.md">>],
      [repo |-> OtherRepos[2], path |-> <<"SKILL.md">>],
      [repo |-> OtherRepos[1], path |-> <<"skills", "c", "SKILL.md">>]>>

RateLimitExceeded == Throw("rate limit exceeded")

RepoInfoGets ==
    {Return(Response(200, [stargazers_count |-> 7, forks_count |-> 2], 999, 0)),
     Return(Response(404, ErrorBody, 999, 0)),
     RateLimitExceeded}

ListingOutcomes(repoName) ==
    {Return(RepoFiles(repoName)), Return(<<>>), RateLimitExceeded}

Fetches(repoName) ==
    {[repoInfo |-> fetchRepoInfo(g), skillFiles |-> l] :
        g \in RepoInfoGets, l \in ListingOutcomes(repoName)}

SearchGets(page) ==
    {Return(Response(200, [total_count |-> 2, items |-> SearchPage(page)], 999, 0)),
     Return(Response(200, [total_count |-> 0], 999, 0)),
     Return([t |-> "response", statusCode |-> 422, body |-> EmptyItemsBody,
             rateLimitRemaining |-> 999]),
     RateLimitExceeded}

\* searchCode throws on a non-200 response as searchRepos does; GitHub
\* lists at most per_page items
CodeSearches(perPage) ==
    {Return([items |-> FirstN(CodeItems, perPage)]),
     Return([items |-> <<>>]),
     RateLimitExceeded}

Queries == {<<"agent skills">>, <<"agent skills", "claude skills">>}
Durations == {0, 50000}

Options ==
    [limit : 1..MaxLimit, durationMs : Durations, queries : Queries]

PriorFile ==
    saveRepoCatalog(logRepoCheck(EmptyCatalog, OtherRepos[1], InfoHasSkills, 1), 1)

maxResults == MaxResultsOf(kOptions)
\* variant: the query loop always cycles
slowWalk_always == TRUE
\* variant: the run never behaves as a slow walk
slowWalk_never == FALSE
slowWalk == kOptions.durationMs > 0
TimeUp == isTimeUp(StartTime, kOptions.durationMs, clock)

\* variant: the limit counts as reached only once it is exceeded
LimitReached_whenExceeded == Len(allItems) > maxResults

LimitReached == Len(allItems) >= maxResults

\* variant: no repository counts as already checked
Checked_never(repoName) == FALSE

\* checkedRepos.has(repoName)
Checked(repoName) == repoName \in checkedRepos

\* an entry of the log of the run: a request or a long sleep started
Event(kind, what, at) ==
    [kind |-> kind, what |-> what, at |-> at, count |-> Len(allItems), pc |-> kPc]

InitCrawl ==
    /\ kOptions \in Options
    /\ kToken \in BOOLEAN
    /\ disk \in {EmptyCatalog, PriorFile}
    /\ catalog = disk
    /\ clock = StartTime
    /\ visits = <<>>
    /\ allItems = <<>>
    /\ checkedRepos = {}
    /\ kPc = "known"
    /\ kIdx = 1
    /\ kQueryIndex = 0
    /\ kPageIndex = 1
    /\ kItems = <<>>
    /\ kLog = <<>>
    /\ kOut = Pending
    /\ JIdle /\ UIdle /\ RIdle /\ GIdle /\ XIdle

\* return allItems.slice(0, maxResults)
Finish ==
    /\ kPc' = "done"
    /\ kOut' = Done(Return(FirstN(allItems, maxResults)))

\* a completed scanSingleRepo: the catalog in memory and the file, the
\* files pushed onto allItems
Scanned(repoName, scan) ==
    /\ catalog' = scan.catalog
    /\ disk' = scan.file
    /\ clock' = clock + scan.elapsed
    /\ visits' = Append(visits, [repo |-> repoName, info |-> scan.info,
                                 at |-> scan.at, prior |-> FALSE])
    /\ allItems' = PushFiles(allItems, repoName, scan.skillFiles, maxResults)

\* lines 333-350: one iteration of the loop over the known repositories
KnownRepoStep(fetched) ==
    /\ kPc = "known"
    /\ IF kIdx > Len(KNOWN_SKILL_REPOS) \/ TimeUp \/ LimitReached
       THEN /\ kPc' = "search"
            /\ UNCHANGED <<cVars, disk, allItems, checkedRepos, kIdx, kLog, kOut>>
       ELSE LET repoName == KNOWN_SKILL_REPOS[kIdx]
                scan == scanSingleRepo(catalog, repoName, fetched, clock, kToken)
            IN  IF Checked(repoName)
                THEN /\ kIdx' = kIdx + 1
                     /\ UNCHANGED <<cVars, disk, allItems, checkedRepos, kPc, kLog, kOut>>
                ELSE /\ checkedRepos' = checkedRepos \cup {repoName}
                     /\ kLog' = Append(kLog, Event("visit", repoName, clock))
                     /\ IF scan.threw
                        THEN /\ kPc' = "aborted"
                             /\ kOut' = Done(RateLimitExceeded)
                             /\ clock' = clock + scan.elapsed
                             /\ UNCHANGED <<catalog, visits, disk, allItems, kIdx>>
                        ELSE /\ Scanned(repoName, scan)
                             /\ kIdx' = kIdx + 1
                             /\ UNCHANGED <<kPc, kOut>>
    /\ UNCHANGED <<kOptions, kToken, kQueryIndex, kPageIndex, kItems,
                   jVars, uVars, rVars, gVars, xVars>>

\* lines 362-375: the query and the page of the next search
wrapped == kQueryIndex >= Len(kOptions.queries)
queryIndex == IF wrapped THEN 0 ELSE kQueryIndex
\* variant: the page is not advanced when the query list wraps
nextPage_notAdvanced == kPageIndex
nextPage == IF wrapped THEN kPageIndex + 1 ELSE kPageIndex
\* variant: the pages go on after the fifth
paused_never == FALSE
paused == wrapped /\ nextPage > MAX_PAGE
pageIndex == IF paused THEN 1 ELSE nextPage

\* lines 361-385 and 405-411: one iteration of the query loop up to the
\* result of searchRepos
SearchStep(got) ==
    /\ kPc = "search"
    /\ LET startAt == IF paused THEN clock + CYCLE_PAUSE ELSE clock
           pauseLog == IF paused
                       THEN Append(kLog, Event("pause", CYCLE_PAUSE, clock))
                       ELSE kLog
           searchLog == Append(pauseLog,
                               Event("search", <<queryIndex + 1, pageIndex>>, startAt))
           result == searchRepos(got)
       IN  IF TimeUp \/ LimitReached \/ (wrapped /\ ~slowWalk)
           THEN /\ kPc' = "code"
                /\ UNCHANGED <<clock, kQueryIndex, kPageIndex, kItems, kLog>>
           ELSE /\ kQueryIndex' = queryIndex + 1
                /\ kPageIndex' = pageIndex
                /\ IF result.t = "throw"
                   THEN /\ clock' = startAt + (IF slowWalk THEN COOLDOWN ELSE 0)
                        /\ kLog' = IF slowWalk
                                   THEN Append(searchLog,
                                               Event("cooldown", COOLDOWN, startAt))
                                   ELSE searchLog
                        /\ UNCHANGED <<kPc, kItems>>
                   ELSE /\ clock' = startAt + getDelay(TRUE, kToken)
                        /\ kLog' = searchLog
                        /\ kItems' = result.v.items
                        /\ kPc' = IF result.v.items = <<>> THEN "search"
                                  ELSE "searchItems"
    /\ UNCHANGED <<catalog, visits, disk, allItems, checkedRepos, kIdx, kOut,
                   kOptions, kToken, jVars, uVars, rVars, gVars, xVars>>

\* lines 387-411: one iteration of the loop over the repositories found
SearchItemStep(fetched) ==
    /\ kPc = "searchItems"
    /\ IF kItems = <<>> \/ TimeUp \/ LimitReached
       THEN /\ kPc' = "search"
            /\ kItems' = <<>>
            /\ UNCHANGED <<cVars, disk, allItems, checkedRepos, kLog>>
       ELSE LET repoName == Head(kItems)
                scan == scanSingleRepo(catalog, repoName, fetched, clock, kToken)
            IN  IF Checked(repoName)
                THEN /\ kItems' = Tail(kItems)
                     /\ UNCHANGED <<cVars, disk, allItems, checkedRepos, kPc, kLog>>
                ELSE /\ checkedRepos' = checkedRepos \cup {repoName}
                     /\ IF scan.threw
                        THEN /\ kPc' = "search"
                             /\ kItems' = <<>>
                             /\ clock' = clock + scan.elapsed
                                         + (IF slowWalk THEN COOLDOWN ELSE 0)
                             /\ kLog' =
                                 IF slowWalk
                                 THEN kLog \o <<Event("visit", repoName, clock),
                                                Event("cooldown", COOLDOWN,
                                                      clock + scan.elapsed)>>
                                 ELSE Append(kLog, Event("visit", repoName, clock))
                             /\ UNCHANGED <<catalog, visits, disk, allItems>>
                        ELSE /\ Scanned(repoName, scan)
                             /\ kLog' = Append(kLog, Event("visit", repoName, clock))
                             /\ kItems' = Tail(kItems)
                             /\ UNCHANGED kPc
    /\ UNCHANGED <<kIdx, kQueryIndex, kPageIndex, kOut, kOptions, kToken,
                   jVars, uVars, rVars, gVars, xVars>>

\* line 415: the content-search phase is entered or skipped
\* variant: the phase is entered whether or not a token is set
CodePhaseOpen_noTokenTest == ~LimitReached /\ ~TimeUp

\* hasToken() && allItems.length < maxResults && !isTimeUp(...)
CodePhaseOpen == kToken /\ ~LimitReached /\ ~TimeUp

CodePhaseEnter ==
    /\ kPc = "code"
    /\ IF CodePhaseOpen
       THEN kPc' = "codeQuery" /\ kIdx' = 1 /\ UNCHANGED kOut
       ELSE Finish /\ UNCHANGED kIdx
    /\ UNCHANGED <<cVars, disk, allItems, checkedRepos, kQueryIndex, kPageIndex,
                   kItems, kLog, kOptions, kToken, jVars, uVars, rVars, gVars, xVars>>

\* lines 421-426 and 450-452: one iteration of the loop over the two
\* content-search queries up to the result of searchCode
CodeQueryStep(result) ==
    /\ kPc = "codeQuery"
    /\ IF kIdx > Len(CODE_QUERIES) \/ LimitReached \/ TimeUp
       THEN /\ Finish
            /\ UNCHANGED <<clock, kIdx, kItems, kLog>>
       ELSE /\ kLog' = Append(kLog, Event("codeSearch", kIdx, clock))
            /\ IF result.t = "throw"
               THEN /\ kIdx' = kIdx + 1
                    /\ UNCHANGED <<clock, kPc, kItems, kOut>>
               ELSE /\ clock' = clock + getDelay(TRUE, kToken)
                    /\ kItems' = result.v.items
                    /\ kPc' = "codeItems"
                    /\ UNCHANGED <<kIdx, kOut>>
    /\ UNCHANGED <<catalog, visits, disk, allItems, checkedRepos, kQueryIndex,
                   kPageIndex, kOptions, kToken, jVars, uVars, rVars, gVars, xVars>>

\* lines 428-452: one iteration of the loop over the items found
CodeItemStep(got) ==
    /\ kPc = "codeItems"
    /\ IF kItems = <<>>
       THEN /\ kPc' = "codeQuery"
            /\ kIdx' = kIdx + 1
            /\ UNCHANGED <<cVars, disk, allItems, checkedRepos, kItems, kLog>>
       ELSE LET item == Head(kItems)
                repoInfo == fetchRepoInfo(got)
                at == clock + getDelay(FALSE, kToken)
                info == CodeSearchInfo(repoInfo.v)
                saved == saveRepoCatalog(logRepoCheck(catalog, item.repo, info, at), at)
            IN  IF HasKey(allItems, item)
                THEN /\ kItems' = Tail(kItems)
                     /\ UNCHANGED <<cVars, disk, allItems, checkedRepos, kPc, kIdx, kLog>>
                ELSE /\ allItems' = Append(allItems, item)
                     /\ IF Checked(item.repo)
                        THEN /\ kItems' = Tail(kItems)
                             /\ UNCHANGED <<cVars, disk, checkedRepos, kPc, kIdx, kLog>>
                        ELSE /\ checkedRepos' = checkedRepos \cup {item.repo}
                             /\ kLog' = Append(kLog,
                                    [Event("visit", item.repo, clock)
                                        EXCEPT !.count = Len(allItems')])
                             /\ IF repoInfo.t = "throw"
                                THEN /\ kPc' = "codeQuery"
                                     /\ kIdx' = kIdx + 1
                                     /\ kItems' = <<>>
                                     /\ UNCHANGED <<cVars, disk>>
                                ELSE /\ catalog' = saved
                                     /\ disk' = saved
                                     /\ clock' = at
                                     /\ visits' = Append(visits,
                                            [repo |-> item.repo, info |-> info,
                                             at |-> at, prior |-> FALSE])
                                     /\ kItems' = Tail(kItems)
                                     /\ UNCHANGED <<kPc, kIdx>>
    /\ UNCHANGED <<kQueryIndex, kPageIndex, kOut, kOptions, kToken,
                   jVars, uVars, rVars, gVars, xVars>>

\* the repository the next iteration of a loop is about
NextKnown == KNOWN_SKILL_REPOS[Min(kIdx, Len(KNOWN_SKILL_REPOS))]
NextFound == IF kPc = "searchItems" /\ kItems # <<>> THEN Head(kItems) ELSE OtherRepos[1]

NextCrawl ==
    \/ \E fetched \in Fetches(NextKnown) : KnownRepoStep(fetched)
    \/ \E got \in SearchGets(pageIndex) : SearchStep(got)
    \/ \E fetched \in Fetches(NextFound) : SearchItemStep(fetched)
    \/ CodePhaseEnter
    \/ \E result \in CodeSearches(Min(maxResults - Len(allItems), CODE_PER_PAGE)) :
        CodeQueryStep(result)
    \/ \E got \in RepoInfoGets : CodeItemStep(got)

SpecCrawl == InitCrawl /\ [][NextCrawl]_vars

-----------------------------------------------------------------------------
(* Properties of the ranked records (specification Spec) *)

RankedOut == IF ranked.state = "done" THEN ranked.out ELSE <<>>

BreakdownSum(r) ==
    r.breakdown.completeness.v + r.breakdown.uniqueness.v
        + r.breakdown.quality.v + r.breakdown.repoSignals.v

AllNumbers(r) ==
    /\ IsNum(r.score)
    /\ IsNum(r.breakdown.completeness) /\ IsNum(r.breakdown.uniqueness)
    /\ IsNum(r.breakdown.quality) /\ IsNum(r.breakdown.repoSignals)

\* C1: in every ranked record, for any catalog including the empty one, the
\* score is the sum of the four breakdown sub-scores.
C1_ScoreIsSumOfBreakdown ==
    \A i \in DOMAIN RankedOut :
        AllNumbers(RankedOut[i]) /\ RankedOut[i].score.v = BreakdownSum(RankedOut[i])

SubScoreInRange(x) == IsNum(x) /\ x.v \in 0..25

\* C2: in every ranked record, for any catalog including the empty one, each
\* sub-score is an integer in 0..25 and the score an integer in 0..100.
C2_SubScoresInRange ==
    \A i \in DOMAIN RankedOut :
        LET r == RankedOut[i]
        IN  /\ SubScoreInRange(r.breakdown.completeness)
            /\ SubScoreInRange(r.breakdown.uniqueness)
            /\ SubScoreInRange(r.breakdown.quality)
            /\ SubScoreInRange(r.breakdown.repoSignals)
            /\ IsNum(r.score) /\ r.score.v \in 0..100

\* C3: with an empty existing catalog every ranked record has uniqueness 25
\* and is not flagged as a duplicate.
C3_EmptyCatalogFullUniqueness ==
    existing = <<>> =>
        \A i \in DOMAIN RankedOut :
            /\ RankedOut[i].breakdown.uniqueness = Num(25)
            /\ RankedOut[i].isDuplicate # Bool(TRUE)

ExistingIds == {Str(existing[j].id) : j \in DOMAIN existing}

StepTier(s) ==
    CASE s >= 75 -> "***"
      [] s >= 50 /\ s <= 74 -> "**"
      [] s >= 25 /\ s <= 49 -> "*"
      [] OTHER -> "hex"

\* C4: the tier is the step function of the score (>= 75, 50..74, 25..49,
\* else the lowest tier) for every score 0..100, and every ranked record's
\* tier is that function of its score; a score that is no number falls in
\* the "else" band.
C4_TierIsStepFunctionOfScore ==
    /\ \A s \in 0..100 : assignTier(Num(s)) = StepTier(s)
    /\ \A i \in DOMAIN RankedOut :
        RankedOut[i].tier =
            IF IsNum(RankedOut[i].score) THEN StepTier(RankedOut[i].score.v) ELSE "hex"

C4_Witness ==
    /\ \E i \in DOMAIN RankedOut : RankedOut[i].score = Num(75) /\ RankedOut[i].tier = "***"
    /\ \E i \in DOMAIN RankedOut : RankedOut[i].score = Num(25) /\ RankedOut[i].tier = "*"

\* the records of a sequence as a bag
CountIn(s, x) == Cardinality({i \in DOMAIN s : s[i] = x})
IsPermutation(s, t) ==
    Len(s) = Len(t) /\ \A i \in DOMAIN s : CountIn(s, s[i]) = CountIn(t, s[i])

\* C9: for any catalog including the empty one, rankAll returns a
\* permutation of the ranked inputs with score[i] >= score[i+1] for adjacent
\* records and id[i] <= id[i+1] when the scores are equal.
C9_RankAllSorted ==
    ranked.state = "done" =>
        /\ IsPermutation(ranked.out, MapRank(discovered, existing))
        /\ \A i \in 1..(Len(ranked.out) - 1) :
            /\ JsGe(ranked.out[i].score, ranked.out[i + 1].score)
            /\ ranked.out[i].score = ranked.out[i + 1].score =>
                    localeCompare(ranked.out[i].id, ranked.out[i + 1].id) <= 0

-----------------------------------------------------------------------------
(* Properties of scoreUniqueness (specification SpecUniqueness) *)

SkillTokenSet == Range(tokenize(Join2(uSkill.name, uSkill.description)))
EntryTokenSet(e) == Range(tokenize(Join2(OrEmpty(e.name), OrEmpty(e.description))))

\* |A \cap B| / |A \cup B|, and 0 when either set is empty
SetJaccard(A, B) ==
    IF A = {} \/ B = {} THEN Frac(0, 1)
    ELSE Frac(Cardinality(A \cap B), Cardinality(A \cup B))

SimilarityTo(i) == SetJaccard(SkillTokenSet, EntryTokenSet(uExisting[i]))

IdCollision == \E i \in DOMAIN uExisting : uExisting[i].id = uSkill.id

\* C5: an existing entry with the record's id, at any position and whatever
\* the similarities, gives uniqueness 0, isDuplicate true, duplicateOf that id.
C5_IdCollisionForcesZero ==
    (uOut.state = "done" /\ IdCollision) =>
        uOut.out = UniquenessObject(0, Str(uSkill.id), TRUE)

C5_Witness ==
    /\ uOut.state = "done" /\ Len(uExisting) >= 2
    /\ uExisting[1].id # uSkill.id /\ SimilarityTo(1) = Frac(5, 5)
    /\ uExisting[2].id = uSkill.id /\ SimilarityTo(2) = Frac(0, 1)
    /\ uOut.out.score = Num(0)

\* m is the greatest similarity to any existing entry
IsMaxSimilarity(m) ==
    /\ \E i \in DOMAIN uExisting : SimilarityTo(i) = m
    /\ \A i \in DOMAIN uExisting : ~FracGt(SimilarityTo(i), m.n, m.d)

BandScore(m) ==
    IF m.n * 10 > 7 * m.d THEN 3
    ELSE IF m.n * 10 > 5 * m.d THEN 10
    ELSE IF m.n * 10 > 3 * m.d THEN 18
    ELSE 25

\* C6: with a non-empty catalog and no id collision the result follows the
\* greatest Jaccard similarity m: m > 0.7 gives 3 and a duplicate flag,
\* 0.5 < m <= 0.7 gives 10, 0.3 < m <= 0.5 gives 18, m <= 0.3 gives 25, the
\* last three without the flag.
C6_BandsOfMaxSimilarity ==
    (uOut.state = "done" /\ uExisting # <<>> /\ ~IdCollision) =>
        \A i \in DOMAIN uExisting :
            IsMaxSimilarity(SimilarityTo(i)) =>
                /\ uOut.out.score = Num(BandScore(SimilarityTo(i)))
                /\ uOut.out.isDuplicate = Bool(BandScore(SimilarityTo(i)) = 3)

C6_Witness ==
    /\ uOut.state = "done" /\ uExisting # <<>> /\ ~IdCollision
    /\ IsMaxSimilarity(Frac(7, 10))
    /\ uOut.out.score = Num(10) /\ uOut.out.isDuplicate = Bool(FALSE)

SameText(i) ==
    /\ uExisting[i].id # uSkill.id
    /\ uExisting[i].name = Str(uSkill.name)
    /\ uExisting[i].description = Str(uSkill.description)

\* C7 as stated: a record whose name and description are identical to those
\* of an existing entry with a different id gets uniqueness <= 3, isDuplicate
\* true and duplicateOf the id of that entry.
C7_IdenticalTextIsDuplicateOfIt ==
    uOut.state = "done" =>
        \A i \in DOMAIN uExisting :
            SameText(i) =>
                /\ uOut.out.score.v <= 3
                /\ uOut.out.isDuplicate = Bool(TRUE)
                /\ uOut.out.duplicateOf = Str(uExisting[i].id)

FirstSameTokens ==
    CHOOSE j \in DOMAIN uExisting :
        /\ EntryTokenSet(uExisting[j]) = SkillTokenSet
        /\ \A k \in 1..(j - 1) : EntryTokenSet(uExisting[k]) # SkillTokenSet

\* C7 amended: when the identical name and description hold at least one
\* token and no existing entry has the record's own id, the record gets
\* uniqueness 3, isDuplicate true and duplicateOf the id of the first
\* existing entry whose token set equals the record's.
C7_IdenticalTextAmended ==
    uOut.state = "done" =>
        \A i \in DOMAIN uExisting :
            (SameText(i) /\ SkillTokenSet # {} /\ ~IdCollision) =>
                /\ uOut.out.score = Num(3)
                /\ uOut.out.isDuplicate = Bool(TRUE)
                /\ uOut.out.duplicateOf = Str(uExisting[FirstSameTokens].id)

C7_Witness ==
    /\ uOut.state = "done" /\ Len(uExisting) >= 2 /\ ~IdCollision
    /\ SameText(2) /\ ~SameText(1) /\ SkillTokenSet # {}
    /\ FirstSameTokens = 1 /\ uExisting[1].id # uExisting[2].id
    /\ uOut.out.duplicateOf = Str(uExisting[1].id)

-----------------------------------------------------------------------------
(* Properties of jaccardSimilarity (specification SpecJaccard) *)

\* C8: jaccardSimilarity is symmetric, also on arrays with repeated tokens,
\* is 1 on equal non-empty token sets, 0 when either array is empty, and
\* always within [0, 1].
C8_JaccardSymmetricAndBounded ==
    jOut.state = "done" =>
        /\ FracEq(jOut.out, jaccardSimilarity(jB, jA))
        /\ (jA # <<>> /\ Range(jA) = Range(jB)) => jOut.out.n = jOut.out.d
        /\ (jA = <<>> \/ jB = <<>>) => jOut.out.n = 0
        /\ jOut.out.d > 0 /\ jOut.out.n >= 0 /\ jOut.out.n <= jOut.out.d

C8_Witness ==
    /\ jOut.state = "done"
    /\ jA = <<"data", "data", "sync">> /\ jB = <<"sync", "data">>
    /\ jOut.out = Frac(2, 2)

-----------------------------------------------------------------------------
(* Properties of the repository catalog (specification SpecCatalog) *)

VisitsOf(r) == LET OfRepo(v) == v.repo = r IN SelectSeq(visits, OfRepo)

EventOf(v) ==
    [timestamp |-> v.at, skillCount |-> v.info.skillCount, status |-> v.info.status.v]

\* C10: after any number of recordVisit calls, every entry's checks has
\* between 1 and 20 elements, which are the most recent visit events of that
\* repository in chronological order.
C10_ChecksAreLastTwentyVisits ==
    \A r \in DOMAIN catalog.repos :
        LET vs == VisitsOf(r)
            c == catalog.repos[r].checks
        IN  /\ Len(c) >= 1 /\ Len(c) <= 20
            /\ Len(c) = Min(Len(vs), 20)
            /\ \A k \in DOMAIN c : c[k] = EventOf(vs[Len(vs) - Len(c) + k])
            /\ \A k \in 1..(Len(c) - 1) : c[k].timestamp <= c[k + 1].timestamp

C10_Witness ==
    \E r \in DOMAIN catalog.repos :
        /\ Len(VisitsOf(r)) > 20
        /\ Len(catalog.repos[r].checks) = 20
        /\ visits # <<>> /\ visits[Len(visits)].repo = r /\ ~visits[Len(visits)].prior
        /\ catalog.repos[r].checks[20] = EventOf(visits[Len(visits)])

\* the repositories the log of calls names
VisitedRepos == {visits[i].repo : i \in DOMAIN visits}

\* C37: after any visits of a repository the status and the skillCount of
\* its entry agree with the latest visit: the status is has-skills exactly
\* when skillCount > 0, and when the latest visit found no document path the
\* status is no-skills and skillCount is 0.
C37_StatusAndCountFollowLatestVisit ==
    \A r \in DOMAIN catalog.repos :
        LET vs == VisitsOf(r)
            latest == vs[Len(vs)].info
            entry == catalog.repos[r]
        IN  /\ (entry.status = "has-skills") <=> (entry.skillCount > 0)
            /\ latest.skillCount = 0
               => (entry.status = "no-skills" /\ entry.skillCount = 0)

\* C24: a call on a repository the catalog already holds leaves stars, forks
\* and description as they were unless it supplies a non-empty value (non-zero,
\* non-empty string), which it stores; it leaves skillIds as they were unless
\* it supplies an array of at least one id, which it stores.  Entries of other
\* repositories keep all four.
C24_RepeatVisitKeepsUnlessSupplied ==
    [][visits' # visits =>
        \A r \in DOMAIN catalog.repos :
            LET visit == visits'[Len(visits')]
                info == visit.info
                old == catalog.repos[r]
                new == catalog'.repos[r]
                here == visit.repo = r
            IN  /\ new.stars = IF here /\ info.stars # 0 THEN info.stars ELSE old.stars
                /\ new.forks = IF here /\ info.forks # 0 THEN info.forks ELSE old.forks
                /\ new.description = IF here /\ info.description # <<>>
                                     THEN info.description ELSE old.description
                /\ new.skillIds = IF here /\ info.skillIds.t = "array"
                                     /\ info.skillIds.v # <<>>
                                  THEN info.skillIds.v ELSE old.skillIds]_vars

\* a repository visited with stars, forks, a description and ids, then by a
\* visit that supplies other stars and nothing else
C24_Witness ==
    \E r \in DOMAIN catalog.repos :
        LET vs == VisitsOf(r)
        IN  /\ Len(vs) >= 2
            /\ vs[Len(vs) - 1].info = InfoHasSkills
            /\ vs[Len(vs)].info = InfoCodeSearch
            /\ ~vs[Len(vs)].prior
            /\ catalog.repos[r].stars = InfoCodeSearch.stars
            /\ catalog.repos[r].forks = InfoHasSkills.forks
            /\ catalog.repos[r].description = InfoHasSkills.description
            /\ catalog.repos[r].skillIds = InfoHasSkills.skillIds.v

RECURSIVE SumSkillCount(_, _)
SumSkillCount(cat, repos) ==
    IF repos = {} THEN 0
    ELSE LET r == CHOOSE x \in repos : TRUE
         IN  cat.repos[r].skillCount + SumSkillCount(cat, repos \ {r})

LastCheckedOf(cat) == {cat.repos[r].lastChecked : r \in DOMAIN cat.repos}

\* C25: getCatalogStats on a catalog without entries returns four zeros and
\* null for oldestCheck and newestCheck; on every catalog totalRepos =
\* reposWithSkills + emptyRepos is the number of entries, totalSkills is the
\* sum of their skillCount, and oldestCheck and newestCheck are the texts of
\* the least and the greatest lastChecked, oldestCheck not after newestCheck.
C25_StatsOfCatalog ==
    [][(qOut' # qOut /\ qOut'.out.call = "getCatalogStats") =>
        LET stats == qOut'.out.result
            held == DOMAIN catalog.repos
        IN  /\ stats.totalRepos = Cardinality(held)
            /\ stats.totalRepos = stats.reposWithSkills + stats.emptyRepos
            /\ stats.reposWithSkills
                   = Cardinality({r \in held : catalog.repos[r].skillCount > 0})
            /\ stats.totalSkills = SumSkillCount(catalog, held)
            /\ held = {} =>
                   /\ stats.totalRepos = 0 /\ stats.reposWithSkills = 0
                   /\ stats.emptyRepos = 0 /\ stats.totalSkills = 0
                   /\ stats.oldestCheck = Null /\ stats.newestCheck = Null
            /\ held # {} =>
                   /\ \E least \in LastCheckedOf(catalog) :
                          /\ \A t \in LastCheckedOf(catalog) : least <= t
                          /\ stats.oldestCheck = Str(toISOString(least))
                   /\ \E greatest \in LastCheckedOf(catalog) :
                          /\ \A t \in LastCheckedOf(catalog) : greatest >= t
                          /\ stats.newestCheck = Str(toISOString(greatest))
                   /\ ~StrLt(stats.newestCheck.v, stats.oldestCheck.v)]_vars

\* the statistics of two repositories, one with skills and one without,
\* checked at different times
C25_Witness ==
    /\ qOut # Pending
    /\ qOut.out.call = "getCatalogStats"
    /\ qOut.out.result.totalRepos = 2
    /\ qOut.out.result.reposWithSkills = 1
    /\ qOut.out.result.emptyRepos = 1
    /\ qOut.out.result.totalSkills > 0
    /\ StrLt(qOut.out.result.oldestCheck.v, qOut.out.result.newestCheck.v)

\* C26: getStaleRepos returns exactly the entries whose lastChecked is
\* strictly before now - maxAgeHours, each once, in ascending order of
\* lastChecked, and leaves the catalog as it was.
C26_StaleReposExactAscending ==
    [][(qOut' # qOut /\ qOut'.out.call = "getStaleRepos") =>
        LET stale == qOut'.out.result
            cutoff == qOut'.out.now - qOut'.out.maxAgeHours * HOUR
        IN  /\ catalog' = catalog
            /\ {stale[i].name : i \in DOMAIN stale}
                   = {r \in DOMAIN catalog.repos : catalog.repos[r].lastChecked < cutoff}
            /\ \A i \in DOMAIN stale : stale[i].entry = catalog.repos[stale[i].name]
            /\ \A i, j \in DOMAIN stale : stale[i].name = stale[j].name => i = j
            /\ \A i, j \in DOMAIN stale :
                   i < j => stale[i].entry.lastChecked <= stale[j].entry.lastChecked]_vars

\* two stale entries returned in the order of their checks, which is not the
\* order of their creation
C26_Witness ==
    /\ qOut # Pending
    /\ qOut.out.call = "getStaleRepos"
    /\ Len(qOut.out.result) = 2
    /\ qOut.out.result[1].entry.lastChecked < qOut.out.result[2].entry.lastChecked
    /\ qOut.out.result[1].entry.firstSeen > qOut.out.result[2].entry.firstSeen

\* C11: firstSeen is the time of the call that created the entry and no
\* later call on any repository changes it; lastChecked is the time of the
\* latest call on the repository; the catalog holds exactly one entry for
\* each repository visited, and none is ever removed.
C11_FirstSeenFixedLastCheckedUpdated ==
    /\ DOMAIN catalog.repos = VisitedRepos
    /\ \A r \in DOMAIN catalog.repos :
        LET vs == VisitsOf(r)
        IN  /\ catalog.repos[r].firstSeen = vs[1].at
            /\ catalog.repos[r].lastChecked = vs[Len(vs)].at

C11_Witness ==
    /\ Cardinality(DOMAIN catalog.repos) = 2
    /\ \E r \in DOMAIN catalog.repos :
        /\ Len(VisitsOf(r)) >= 3
        /\ visits[Len(visits)].repo = r /\ ~visits[Len(visits)].prior
        /\ visits[Len(visits) - 1].repo # r
        /\ catalog.repos[r].firstSeen < catalog.repos[r].lastChecked
        /\ catalog.repos[r].lastChecked = clock

-----------------------------------------------------------------------------
(* Properties of the GitHub client (specification SpecClient) *)

Requests == Len(gTrace)
IsResponse(i) == gTrace[i].result.t = "response"
IsRateLimited(i) == IsResponse(i) /\ gTrace[i].result.statusCode = 403
                    /\ gTrace[i].result.rateLimitRemaining = 0
IsServerError(i) == IsResponse(i) /\ gTrace[i].result.statusCode >= 500
IsConnectionError(i) == gTrace[i].result.t = "error"
\* request i was the last one of the call, and the call is over
EndedAt(i) == i = Requests /\ gResult # Pending

\* C15: a 422 response to a repository search makes searchRepos return an
\* empty result: zero items, and no error raised.
C15_UnprocessableIsEmptySuccess ==
    (gCaller = "searchRepos" /\ gOut # Pending /\ Requests > 0
     /\ IsResponse(Requests) /\ gTrace[Requests].result.statusCode = 422)
    => (gOut.out.t = "return" /\ gOut.out.v.items = <<>>)

RateLimitWaits ==
    \A i \in DOMAIN gTrace :
        (IsRateLimited(i) /\ i <= RETRIES)
        => /\ gTrace[i].sleep =
                Max(gTrace[i].result.rateLimitReset * 1000 - gTrace[i].at, 1000)
           /\ ~EndedAt(i)

RateLimitBudget ==
    /\ Requests <= RETRIES + 1
    /\ (gResult = Done(Throw("rate limit exceeded")))
       <=> (Requests = RETRIES + 1 /\ IsRateLimited(RETRIES + 1))

\* C22: whatever non-success response ends the request for a file,
\* fetchFileContent returns null and raises no error.
C22_FetchReturnsNullOnNonSuccess ==
    (gCaller = "fetchFileContent" /\ gOut # Pending /\ IsResponse(Requests)
     /\ gTrace[Requests].result.statusCode # 200)
    => gOut.out = Return(Null)

\* C16 as stated: while the responses are 403 with zero remaining quota the
\* client waits max(reset - now, 1 s) and retries, at most 2 retries (3
\* requests), and only then fails with the rate-limit error; any response
\* that is not rate-limited ends the retrying.
C16_AnyOtherResponseEndsRetrying ==
    /\ RateLimitWaits
    /\ RateLimitBudget
    /\ \A i \in DOMAIN gTrace : (IsResponse(i) /\ ~IsRateLimited(i)) => EndedAt(i)

\* C16 amended: as above, but the response that ends the retrying is one
\* that is neither rate-limited nor a 5xx received before the last attempt.
C16_RateLimitRetry ==
    /\ RateLimitWaits
    /\ RateLimitBudget
    /\ \A i \in DOMAIN gTrace :
        (IsResponse(i) /\ ~IsRateLimited(i) /\ ~(IsServerError(i) /\ i <= RETRIES))
        => EndedAt(i)

C16_Witness ==
    /\ Requests = RETRIES + 1
    /\ \A i \in DOMAIN gTrace : IsRateLimited(i)
    /\ gTrace[1].sleep = 3000 /\ gTrace[2].sleep = 1000
    /\ gResult = Done(Throw("rate limit exceeded"))

\* C17: a 5xx response is retried after 2 s times the number of the retry
\* about to be made (2 s before the first retry, 4 s before the second),
\* within the budget of 2 retries; on the last attempt it is not retried.
C17_ServerErrorLinearBackoff ==
    /\ Requests <= RETRIES + 1
    /\ \A i \in DOMAIN gTrace :
        IsServerError(i)
        => IF i <= RETRIES
           THEN gTrace[i].sleep = 2000 * i /\ ~EndedAt(i)
           ELSE gTrace[i].sleep = 0 /\ gResult = Done(Return(gTrace[i].result))

C17_Witness ==
    /\ Requests = RETRIES + 1
    /\ \A i \in DOMAIN gTrace : IsServerError(i)
    /\ gTrace[1].sleep = 2000 /\ gTrace[2].sleep = 4000
    /\ gNow = StartTime + 6000
    /\ gResult # Pending

\* C18: a transient failure, a 5xx response or a connection error, met
\* before the retry budget is used up is retried after a backoff.
C18_TransientFailureRetried ==
    \A i \in DOMAIN gTrace :
        ((IsServerError(i) \/ IsConnectionError(i)) /\ i <= RETRIES)
        => (gTrace[i].sleep > 0 /\ ~EndedAt(i))

-----------------------------------------------------------------------------
(* Properties of the crawler (specification SpecCrawl) *)

Starts(kinds) == {i \in DOMAIN kLog : kLog[i].kind \in kinds}
VisitStarts == Starts({"visit"})
RequestStarts == Starts({"search", "codeSearch", "visit"})
Returned == kOut # Pending /\ kOut.out.t = "return"

\* C12: within one run no repository is visited twice, whatever the phase,
\* the query or the page cycle: its metadata is fetched at most once and
\* its visit is recorded at most once.
C12_NoRepositoryVisitedTwice ==
    /\ \A i, j \in DOMAIN visits : visits[i].repo = visits[j].repo => i = j
    /\ \A i, j \in VisitStarts : kLog[i].what = kLog[j].what => i = j

C12_Witness ==
    /\ kPc = "done"
    /\ {kLog[i].pc : i \in VisitStarts} = {"known", "searchItems", "codeItems"}
    /\ Len(visits) = 4
    /\ \E i \in Starts({"search"}) : KNOWN_SKILL_REPOS[1] \in Range(SearchPage(kLog[i].what[2]))

\* C13 as stated: the result has at most n items, and once the count of
\* items has reached n no search request and no repository visit is
\* started, in any phase.
C13_NothingStartsAtLimit ==
    /\ Returned => Len(kOut.out.v) <= maxResults
    /\ \A i \in RequestStarts : kLog[i].count < maxResults

\* the visit the content-search phase makes for the item it has just added
VisitOfLastItem(i) ==
    /\ kLog[i].kind = "visit"
    /\ kLog[i].pc = "codeItems"
    /\ kLog[i].count = maxResults
    /\ allItems[maxResults].repo = kLog[i].what

\* C13 amended: the result has at most n items, and once the count has
\* reached n nothing is started but, in the content-search phase, the visit
\* of the repository of the item that brought the count to n.
C13_LimitBoundsResultAndRequests ==
    /\ Returned => Len(kOut.out.v) <= maxResults
    /\ Len(allItems) <= maxResults
    /\ \A i \in RequestStarts : kLog[i].count < maxResults \/ VisitOfLastItem(i)

C13_Witness ==
    /\ Returned
    /\ Len(kOut.out.v) = maxResults
    /\ maxResults = MaxLimit
    /\ \E i \in VisitStarts : VisitOfLastItem(i)
    /\ \E i \in VisitStarts : kLog[i].pc = "searchItems"

Deadline == StartTime + kOptions.durationMs

\* C14: in slow-walk mode no search request and no repository visit is
\* started at or after the deadline, in any phase.
C14_NothingStartsAfterDeadline ==
    slowWalk => \A i \in RequestStarts : kLog[i].at < Deadline

\* C19: an error thrown by a fetch, in whichever phase, never ends the run:
\* the run returns the items collected.
C19_ErrorNeverAbortsRun ==
    /\ kPc # "aborted"
    /\ kOut # Pending => kOut.out.t = "return"

\* C20: at every point of a run the catalog file holds the recorded visit
\* of every repository whose visit has completed in this run.
C20_FileHoldsEveryCompletedVisit ==
    \A i \in DOMAIN visits :
        /\ visits[i].repo \in DOMAIN disk.repos
        /\ LET entry == disk.repos[visits[i].repo]
           IN  /\ entry.lastChecked = visits[i].at
               /\ entry.checks[Len(entry.checks)] = EventOf(visits[i])
               /\ entry = catalog.repos[visits[i].repo]

C20_Witness ==
    /\ kOut = Pending
    /\ Len(visits) = 3
    /\ {kLog[i].pc : i \in VisitStarts} = {"known", "codeItems"}
    /\ disk # EmptyCatalog
    /\ OtherRepos[1] \in DOMAIN disk.repos

\* the items the visits of the first two phases pushed
ItemsOfVisits ==
    UNION {{[repo |-> visits[i].repo, path |-> f] : f \in Range(RepoFiles(visits[i].repo))} :
           i \in DOMAIN visits}

-----------------------------------------------------------------------------
(* Properties of consolidate *)

\* C23: consolidate returns null exactly when nothing was discovered; a
\* returned inventory has totalDiscovered = the number of its skills, and
\* each of its skills has score >= minScore
C23_InventoryCountsSkillsAtOrAboveMinScore ==
    iOut # Pending =>
        /\ (iOut.out = Null) <=> (discovered = <<>>)
        /\ iOut.out # Null =>
               /\ iOut.out.totalDiscovered = Len(iOut.out.skills)
               /\ \A i \in DOMAIN iOut.out.skills :
                      JsGe(iOut.out.skills[i].score, Num(iMinScore))

\* the phase a logged request or sleep belongs to
PhaseOf(pc) ==
    IF pc = "known" THEN 1
    ELSE IF pc \in {"search", "searchItems"} THEN 2
    ELSE 3

IndexIn(seq, x) == CHOOSE k \in DOMAIN seq : seq[k] = x

SearchStarts == Starts({"search"})

\* the search whose results a visit of the keyword-search phase belongs to
SearchBefore(i) ==
    CHOOSE k \in SearchStarts : k < i /\ \A m \in SearchStarts : m < i => m <= k

PauseBetween(i, j) == \E k \in Starts({"pause"}) : i < k /\ k < j

\* C28: the requests of a run are in phase order, known repositories, then
\* keyword search, then content search, and no phase is entered again; the
\* known repositories are visited in the order of the seed list, the searches
\* are issued in the order of the queries within a page and of the pages
\* within a cycle, and the repositories a search found are visited in the
\* order of its results before the next search is issued.
C28_PhasesAndVisitsInOrder ==
    /\ \A i, j \in RequestStarts :
           i < j => PhaseOf(kLog[i].pc) <= PhaseOf(kLog[j].pc)
    /\ kPc \notin {"done", "aborted"} =>
           \A i \in DOMAIN kLog : PhaseOf(kLog[i].pc) <= PhaseOf(kPc)
    /\ \A i \in VisitStarts :
           /\ kLog[i].pc \in {"known", "searchItems", "codeItems"}
           /\ kLog[i].pc = "known" => kLog[i].what \in Range(KNOWN_SKILL_REPOS)
           /\ kLog[i].pc = "searchItems" =>
                  /\ \E k \in SearchStarts : k < i
                  /\ kLog[i].what \in Range(SearchPage(kLog[SearchBefore(i)].what[2]))
    /\ \A i, j \in VisitStarts :
           (i < j /\ kLog[i].pc = "known" /\ kLog[j].pc = "known") =>
               IndexIn(KNOWN_SKILL_REPOS, kLog[i].what)
                   < IndexIn(KNOWN_SKILL_REPOS, kLog[j].what)
    /\ \A i, j \in VisitStarts :
           (i < j /\ kLog[i].pc = "searchItems" /\ kLog[j].pc = "searchItems"
            /\ SearchBefore(i) = SearchBefore(j)) =>
               LET page == SearchPage(kLog[SearchBefore(i)].what[2])
               IN  IndexIn(page, kLog[i].what) < IndexIn(page, kLog[j].what)
    /\ \A i, j \in SearchStarts :
           (i < j /\ ~PauseBetween(i, j)) =>
               \/ kLog[i].what[2] < kLog[j].what[2]
               \/ kLog[i].what[2] = kLog[j].what[2] /\ kLog[i].what[1] < kLog[j].what[1]

\* a finished run that visited repositories in each of the three phases, both
\* known repositories among them, and issued two searches
C28_Witness ==
    /\ Returned
    /\ {kLog[i].pc : i \in VisitStarts} = {"known", "searchItems", "codeItems"}
    /\ Cardinality({i \in VisitStarts : kLog[i].pc = "known"}) = 2
    /\ Cardinality(SearchStarts) = 2

\* more than the items any search of the model returns
ItemsBound == 1 + Max(Len(CodeItems), Max(Len(SearchPage(1)), Len(SearchPage(2))))

\* what a single-pass run has left to do, as a number every step lowers:
\* the loop iterations left in the phase, then the phases after it
LeftInCode ==
    IF kPc = "codeQuery" THEN 1 + (Len(CODE_QUERIES) + 1 - kIdx) * (ItemsBound + 1)
    ELSE IF kPc = "codeItems"
    THEN 2 + (Len(CODE_QUERIES) - kIdx) * (ItemsBound + 1) + Len(kItems)
    ELSE 0

CodeWork == 2 + Len(CODE_QUERIES) * (ItemsBound + 1)

LeftInSearch ==
    LET queriesLeft == Len(kOptions.queries) - kQueryIndex
    IN  IF kPc = "search" THEN 1 + queriesLeft * (ItemsBound + 1)
        ELSE IF kPc = "searchItems"
        THEN 2 + queriesLeft * (ItemsBound + 1) + Len(kItems)
        ELSE 0

SearchWork == 2 + Len(kOptions.queries) * (ItemsBound + 1)

WorkLeft ==
    IF kPc \in {"done", "aborted"} THEN 0
    ELSE IF kPc \in {"codeQuery", "codeItems"} THEN LeftInCode
    ELSE IF kPc = "code" THEN CodeWork
    ELSE IF kPc \in {"search", "searchItems"} THEN CodeWork + LeftInSearch
    ELSE CodeWork + SearchWork + (Len(KNOWN_SKILL_REPOS) + 1 - kIdx)

\* C29: in a single-pass run (durationMs = 0) every search is for page 1,
\* no query is searched twice, and the phase is left once the queries are
\* exhausted; every step of the run, whatever the requests return or throw,
\* lowers the work left, a natural number, so the run terminates.
C29_SinglePassTerminates ==
    [][kOptions.durationMs = 0 =>
        /\ WorkLeft' \in Nat
        /\ WorkLeft' < WorkLeft
        /\ \A i \in Starts({"search"})' :
               /\ kLog'[i].what[2] = 1
               /\ kLog'[i].what[1] \in 1..Len(kOptions.queries)
               /\ \A j \in Starts({"search"})' :
                      kLog'[i].what[1] = kLog'[j].what[1] => i = j
        /\ Starts({"pause", "cooldown"})' = {}
        /\ (kPc = "search" /\ kQueryIndex >= Len(kOptions.queries)) => kPc' = "code"]_vars

\* a single-pass run over two queries that returned after searching each
\* once, issuing both content searches, and having a visit's request refused
C29_Witness ==
    /\ kOptions.durationMs = 0
    /\ Len(kOptions.queries) = 2
    /\ Returned
    /\ {kLog[i].what : i \in SearchStarts} = {<<1, 1>>, <<2, 1>>}
    /\ Cardinality(Starts({"codeSearch"})) = Len(CODE_QUERIES)
    /\ Cardinality(VisitStarts) > Len(visits)

\* C30: in a slow-walk run (durationMs > 0) each search is for the next query
\* of the list on the same page, or, the list being exhausted, for the first
\* query on the next page; the page is always in 1..5; exactly when the list
\* is exhausted on page 5 the run sleeps 60 seconds and searches the first
\* query on page 1; and the keyword-search phase is left only with the
\* deadline passed or the limit reached.
C30_SlowWalkCyclesPages ==
    [][kOptions.durationMs > 0 =>
        LET exhausted == kQueryIndex >= Len(kOptions.queries)
            lastPage == exhausted /\ kPageIndex = 5
            first == kLog'[Len(kLog) + 1]
            search == kLog'[Len(kLog) + (IF lastPage THEN 2 ELSE 1)]
        IN  /\ kPageIndex' \in 1..5
            /\ (kPc = "search" /\ kLog' # kLog) =>
                   /\ (first.kind = "pause") <=> lastPage
                   /\ lastPage => first.what = 60000 /\ search.at = first.at + 60000
                   /\ search.kind = "search"
                   /\ search.what = IF ~exhausted THEN <<kQueryIndex + 1, kPageIndex>>
                                    ELSE IF kPageIndex < 5 THEN <<1, kPageIndex + 1>>
                                    ELSE <<1, 1>>
                   /\ kQueryIndex' = search.what[1]
                   /\ kPageIndex' = search.what[2]
            /\ Starts({"pause", "search"})' # Starts({"pause", "search"}) => kPc = "search"
            /\ (kPc \in {"search", "searchItems"} /\ kPc' \notin {"search", "searchItems"}) =>
                   /\ kPc' = "code"
                   /\ clock - StartTime >= kOptions.durationMs
                      \/ Len(allItems) >= kOptions.limit]_vars

\* a slow-walk run that searched page 5, slept 60 seconds and searched page 1
\* again
C30_Witness ==
    /\ kOptions.durationMs > 0
    /\ \E i \in Starts({"pause"}) :
           /\ i > 1 /\ i < Len(kLog)
           /\ \E j \in SearchStarts : j < i /\ kLog[j].what[2] = 5
           /\ kLog[i + 1].kind = "search"
           /\ kLog[i + 1].what = <<1, 1>>
           /\ kLog[i + 1].at = kLog[i].at + 60000

\* C31: a search that fails in the keyword-search phase does not end the
\* phase or the run: the step that issued it stays in the query loop with the
\* query counted as done, so the next search is for the query after it; in a
\* slow-walk run the failure is followed by a sleep of 30 seconds, in a
\* single-pass run by no sleep at all.  (A search that succeeds is followed by
\* the pacing delay, which tells the two apart.)
C31_SearchFailureCoolsDownAndMovesOn ==
    [][(kPc = "search" /\ kLog' # kLog) =>
        LET issued == CHOOSE i \in DOMAIN kLog' : i > Len(kLog) /\ kLog'[i].kind = "search"
            search == kLog'[issued]
            failed == clock' # search.at + getDelay(TRUE, kToken)
        IN  failed =>
               /\ kPc' = "search"
               /\ kOut' = Pending
               /\ kQueryIndex' = search.what[1]
               /\ kPageIndex' = search.what[2]
               /\ IF kOptions.durationMs > 0
                  THEN /\ Len(kLog') = issued + 1
                       /\ kLog'[issued + 1].kind = "cooldown"
                       /\ kLog'[issued + 1].what = 30000
                       /\ clock' = search.at + 30000
                  ELSE /\ Len(kLog') = issued
                       /\ clock' = search.at]_vars

\* a slow-walk run in which a search failed, 30 seconds passed and the next
\* search, for another query, was issued
C31_Witness ==
    /\ kOptions.durationMs > 0
    /\ \E i \in SearchStarts :
           /\ i + 2 <= Len(kLog)
           /\ kLog[i + 1].kind = "cooldown"
           /\ kLog[i + 2].kind = "search"
           /\ kLog[i + 2].what[1] # kLog[i].what[1]
           /\ kLog[i + 2].at = kLog[i].at + 30000

NoTwoAlike(items) ==
    \A i, j \in DOMAIN items :
        (items[i].repo = items[j].repo /\ items[i].path = items[j].path) => i = j

\* C36: whatever the responses, rate-limited 403s, 5xx errors and other
\* statuses mixed, one rateLimitedGet call makes at most 3 requests, the two
\* causes of retry drawing on one budget; the loop is never left with no
\* result, and the call ends by returning a response or by throwing.
C36_ThreeRequestsThenResult ==
    /\ Requests <= RETRIES + 1
    /\ Requests = gAttempt + (IF gResult = Pending THEN 0 ELSE 1)
    /\ gResult = Pending => gAttempt <= RETRIES
    /\ gResult # Pending
       => \/ gResult.out.t = "throw"
          \/ gResult.out.t = "return" /\ gResult.out.v.t = "response"

\* a call whose first request was rate-limited and whose second met a 5xx:
\* the third, a 5xx again, is returned as it is
C36_Witness ==
    /\ Requests = RETRIES + 1
    /\ IsRateLimited(1) /\ IsServerError(2) /\ IsServerError(3)
    /\ gResult = Done(Return(gTrace[3].result))

\* C35: the items collected, and the sequence the crawl returns, never hold
\* two items of the same repository and path, whichever phases added them.
C35_NoDuplicateItems ==
    /\ NoTwoAlike(allItems)
    /\ Returned => NoTwoAlike(kOut.out.v)

\* a finished run whose first phase collected the file the content search
\* lists first, and whose two content searches both succeeded and added no
\* item
C35_Witness ==
    /\ Returned
    /\ HasKey(kOut.out.v, CodeItems[1])
    /\ \E i \in VisitStarts : kLog[i].pc = "known" /\ kLog[i].what = CodeItems[1].repo
    /\ \E i, j \in Starts({"codeSearch"}) :
           /\ j = i + 1
           /\ kLog[j].at = kLog[i].at + getDelay(TRUE, kToken)
           /\ kLog[j].count = kLog[i].count
           /\ clock = kLog[j].at + getDelay(TRUE, kToken)

-----------------------------------------------------------------------------
(* One scanSingleRepo call (github-scanner.js:276-308) request by request: *)
(* fetchRepoInfo, a sleep, listSkillFiles on repoInfo.defaultBranch with   *)
(* its recursion on 'master' (lines 190-212), a sleep, and the info that   *)
(* is logged.  `got` is what rateLimitedGet returns or throws.             *)

\* String.prototype.endsWith('SKILL.md') on the file names of the model
EndsWithSkillMd(path) == path[Len(path)] \in {"SKILL.md", "OLD-SKILL.md"}

\* lines 204-211: the blobs whose path ends with SKILL.md, each as its path
\* (the name is 'SKILL.md' for all)
SkillBlobs(body) ==
    LET tree == Field(body, "tree", <<>>)
        IsSkill(node) == node.type = "blob" /\ EndsWithSkillMd(node.path)
        kept == SelectSeq(tree, IsSkill)
    IN  [i \in DOMAIN kept |-> kept[i].path]

\* one call of listSkillFiles on what rateLimitedGet gave it: it throws,
\* returns, or calls itself on 'master'
listSkillFilesStep(branch, got) ==
    IF got.t = "throw" THEN [kind |-> "done", outcome |-> got]
    ELSE IF got.v.statusCode # 200
    THEN IF branch # "master" THEN [kind |-> "recurse", branch |-> "master"]
         ELSE [kind |-> "done", outcome |-> Return(<<>>)]
    ELSE [kind |-> "done", outcome |-> Return(SkillBlobs(got.v.body))]

TreeBodies ==
    {[tree |-> <<[type |-> "tree", path |-> <<"skills">>],
                 [type |-> "blob", path |-> <<"skills", "a", "SKILL.md">>],
                 [type |-> "blob", path |-> <<"README.md">>],
                 [type |-> "blob", path |-> <<"docs", "OLD-SKILL.md">>]>>],
     [tree |-> <<[type |-> "blob", path |-> <<"README.md">>]>>],
     [truncated |-> FALSE]}

TreeGets ==
    {Return(Response(200, b, 999, 0)) : b \in TreeBodies}
    \cup {Return(Response(st, ErrorBody, 999, 0)) : st \in {404, 409, 500}}
    \cup {RateLimitExceeded}

BranchGets ==
    {Return(Response(200, [stargazers_count |-> 7, default_branch |-> b], 999, 0)) :
        b \in {"master", "develop"}}
    \cup {Return(Response(200, [stargazers_count |-> 7], 999, 0)),
          Return(Response(404, ErrorBody, 999, 0)),
          RateLimitExceeded}

Request(kind, branch, got) ==
    [kind |-> kind, branch |-> branch, got |-> got, at |-> lClock]

InitVisit ==
    /\ lPc = "info"
    /\ lBranch = "main"
    /\ lClock = StartTime
    /\ lToken \in BOOLEAN
    /\ lRequests = <<>>
    /\ lOut = Pending
    /\ JIdle /\ UIdle /\ RIdle /\ CIdle /\ GIdle /\ KIdle /\ IIdle /\ QIdle /\ PIdle /\ AIdle /\ DIdle

\* lines 279-280
RepoInfoStep(got) ==
    /\ lPc = "info"
    /\ lRequests' = Append(lRequests, Request("repoInfo", "", got))
    /\ LET repoInfo == fetchRepoInfo(got)
       IN  IF repoInfo.t = "throw"
           THEN /\ lPc' = "done"
                /\ lOut' = Done(repoInfo)
                /\ UNCHANGED <<lBranch, lClock>>
           ELSE /\ lPc' = "list"
                /\ lBranch' = repoInfo.v.defaultBranch
                /\ lClock' = lClock + getDelay(FALSE, lToken)
                /\ UNCHANGED lOut
    /\ UNCHANGED <<lToken, jVars, uVars, rVars, cVars, gVars, kVars, iVars, qVars, pVars, aVars, dVars>>

\* lines 284-299: one request of listSkillFiles; when it is the last, the
\* sleep after it and the info handed to logRepoCheck
ListStep(got) ==
    /\ lPc = "list"
    /\ lRequests' = Append(lRequests, Request("tree", lBranch, got))
    /\ LET step == listSkillFilesStep(lBranch, got)
           repoInfo == fetchRepoInfo(lRequests[1].got).v
       IN  IF step.kind = "recurse"
           THEN /\ lBranch' = step.branch
                /\ UNCHANGED <<lPc, lClock, lOut>>
           ELSE IF step.outcome.t = "throw"
           THEN /\ lPc' = "done"
                /\ lOut' = Done(step.outcome)
                /\ UNCHANGED <<lBranch, lClock>>
           ELSE /\ lPc' = "done"
                /\ lClock' = lClock + getDelay(FALSE, lToken)
                /\ lOut' = Done(Return([skillFiles |-> step.outcome.v,
                                        info |-> ScanInfo(repoInfo, step.outcome.v)]))
                /\ UNCHANGED lBranch
    /\ UNCHANGED <<lToken, jVars, uVars, rVars, cVars, gVars, kVars, iVars, qVars, pVars, aVars, dVars>>

NextVisit ==
    \/ \E got \in BranchGets : RepoInfoStep(got)
    \/ \E got \in TreeGets : ListStep(got)

SpecVisit == InitVisit /\ [][NextVisit]_vars

-----------------------------------------------------------------------------
(* Properties of one visit *)

Listings == SelectSeq(lRequests, LAMBDA r : r.kind = "tree")

\* a request that did not give a 200 response
Failed(r) == r.got.t = "throw" \/ r.got.v.statusCode # 200

\* C32: a visit lists the tree of the default branch; a listing that fails is
\* retried once, on master, unless it was on master; a visit issues at most
\* two listings; and when every listing failed the visit ends with an empty
\* list of paths, recorded as no-skills, not with an error.
C32_ListingRetriedOnceOnMaster ==
    /\ Len(Listings) <= 2
    /\ Listings # <<>> =>
           Listings[1].branch = fetchRepoInfo(lRequests[1].got).v.defaultBranch
    /\ Len(Listings) = 2 =>
           /\ Failed(Listings[1])
           /\ Listings[1].branch # "master"
           /\ Listings[2].branch = "master"
    /\ (lPc = "done" /\ Listings # <<>>) =>
           /\ (Failed(Listings[1]) /\ Listings[1].branch # "master") => Len(Listings) = 2
           /\ (\A i \in DOMAIN Listings : Failed(Listings[i])) =>
                  /\ lOut.out.t = "return"
                  /\ lOut.out.v.skillFiles = <<>>
                  /\ lOut.out.v.info.status = Str("no-skills")

\* C33: between two consecutive requests of a visit (repository metadata,
\* tree listing, tree listing on master) there is a sleep of at least the
\* delay for calls other than searches: 2000 ms without a token, 800 ms
\* with one.
C33_RequestsPacedByPolicyDelay ==
    \A i \in DOMAIN lRequests :
        i > 1 => lRequests[i].at - lRequests[i - 1].at >= (IF lToken THEN 800 ELSE 2000)

-----------------------------------------------------------------------------
(* Specification of categorizeSkill on skills whose id, name, description  *)
(* and tags are drawn from words of several rules, of two rules at once    *)
(* (incident, pipeline) and of none                                        *)

CategoryWords ==
    {"incident", "pipeline", "auth", "cloud", "Data", "api", "event", "test", "market",
     "workflow", "notes"}

CategorySkills ==
    [id : {<<"tool">>, <<"data", "-", "sync">>},
     name : {<<w>> : w \in CategoryWords},
     description : {<<>>} \cup {<<"notes", " ", w>> : w \in CategoryWords},
     tags : {<<>>} \cup {<< <<w>>, <<"notes">> >> : w \in CategoryWords}]

InitCategorize ==
    /\ aSkill \in CategorySkills
    /\ aOut = Pending
    /\ JIdle /\ UIdle /\ RIdle /\ CIdle /\ GIdle /\ KIdle
    /\ IIdle /\ QIdle /\ PIdle /\ LIdle /\ DIdle

CategorizeCall ==
    /\ aOut = Pending
    /\ aOut' = Done(categorizeSkill(aSkill))
    /\ UNCHANGED <<aSkill, jVars, uVars, rVars, cVars, gVars, kVars>>
    /\ UNCHANGED <<iVars, qVars, pVars, lVars, dVars>>

NextCategorize == CategorizeCall

SpecCategorize == InitCategorize /\ [][NextCategorize]_vars

-----------------------------------------------------------------------------
(* Properties of categorizeSkill *)

RuleOrder ==
    <<"security", "infrastructure", "data-ai", "development", "architecture", "testing",
      "business", "workflow">>

SkillTokens ==
    Range(tokenize(Join2(Join2(Join2(aSkill.id, aSkill.name), aSkill.description),
                         JoinTags(aSkill.tags))))

\* the rule of that name has a keyword among the tokens of the skill
Matches(name) ==
    \E r \in DOMAIN CATEGORY_RULES :
        CATEGORY_RULES[r].name = name /\ CATEGORY_RULES[r].keywords \cap SkillTokens # {}

\* C34: the category is the first name, in the order security,
\* infrastructure, data-ai, development, architecture, testing, business,
\* workflow, whose rule has a keyword among the tokens of id, name,
\* description and tags, and general when no rule has one; a skill with the
\* token incident is security, and one with pipeline is infrastructure
\* unless a security keyword is present.
C34_FirstMatchingRuleWins ==
    aOut # Pending =>
        /\ IF \A k \in DOMAIN RuleOrder : ~Matches(RuleOrder[k])
           THEN aOut.out = "general"
           ELSE \E k \in DOMAIN RuleOrder :
                   /\ aOut.out = RuleOrder[k]
                   /\ Matches(RuleOrder[k])
                   /\ \A j \in 1..(k - 1) : ~Matches(RuleOrder[j])
        /\ "incident" \in SkillTokens => aOut.out = "security"
        /\ ("pipeline" \in SkillTokens /\ ~Matches("security")) =>
               aOut.out = "infrastructure"

\* a skill with pipeline (infrastructure, data-ai), a workflow keyword and a
\* data-ai keyword in its id, categorized as infrastructure
C34_Witness ==
    /\ aOut # Pending
    /\ {"pipeline", "workflow", "data"} \subseteq SkillTokens
    /\ ~Matches("security")
    /\ Matches("data-ai") /\ Matches("workflow")
    /\ aOut.out = "infrastructure"

-----------------------------------------------------------------------------
(* Two crawl runs in two processes on one catalog file.  A run loads the  *)
(* catalog once (github-scanner.js:321) and hands that object to every    *)
(* scanSingleRepo call, which logs the visit in it and writes the whole   *)
(* object to the file (lines 292-300).  logRepoCheck and saveRepoCatalog  *)
(* are synchronous, so a visit's log and save are one step; the requests  *)
(* before them touch neither the object nor the file.                     *)

Procs == {1, 2}

\* scanSingleRepo calls of the two runs together
MaxScans == 3

ScansOf(proc) == {i \in DOMAIN pLog : pLog[i].kind = "scan" /\ pLog[i].proc = proc}

Calls == {i \in DOMAIN pLog : pLog[i].kind \in {"scan", "threw"}}

\* what the requests of a visit return: both succeed, the listing is refused,
\* or the repository request is
RaceFetches(repoName) ==
    {f \in Fetches(repoName) :
        /\ f.repoInfo \in {fetchRepoInfo(g) : g \in RepoInfoGets \ {Return(Response(404, ErrorBody, 999, 0))}}
        /\ f.skillFiles # Return(<<>>)}

InitRace ==
    /\ pPc = [proc \in Procs |-> "start"]
    /\ pCatalog = [proc \in Procs |-> Null]
    /\ pDisk \in {Null, PriorFile}
    /\ pWriter = 0
    /\ pClock = 1
    /\ pLog = <<>>
    /\ JIdle /\ UIdle /\ RIdle /\ CIdle /\ GIdle /\ KIdle /\ IIdle /\ QIdle /\ LIdle /\ AIdle /\ DIdle

\* line 321: const catalog = loadRepoCatalog()
LoadStep(proc) ==
    /\ pPc[proc] = "start"
    /\ pPc' = [pPc EXCEPT ![proc] = "running"]
    /\ pCatalog' = [pCatalog EXCEPT ![proc] = loadRepoCatalog(pDisk)]
    /\ pLog' = Append(pLog, [kind |-> "load", proc |-> proc, file |-> pDisk])
    /\ UNCHANGED <<pDisk, pWriter, pClock>>
    /\ UNCHANGED <<jVars, uVars, rVars, cVars, gVars, kVars, iVars, qVars, lVars, aVars, dVars>>

\* one scanSingleRepo(repoName, catalog) of a run; a visit that throws
\* leaves the object and the file as they were
ScanStep(proc, repoName, fetched) ==
    /\ pPc[proc] = "running"
    /\ Cardinality(Calls) < MaxScans
    /\ LET scan == scanSingleRepo(pCatalog[proc], repoName, fetched, pClock, TRUE)
       IN  /\ pClock' = pClock + scan.elapsed
           /\ IF scan.threw
              THEN /\ pLog' = Append(pLog, [kind |-> "threw", proc |-> proc,
                                            repo |-> repoName, at |-> pClock'])
                   /\ UNCHANGED <<pCatalog, pDisk, pWriter>>
              ELSE /\ pCatalog' = [pCatalog EXCEPT ![proc] = scan.catalog]
                   /\ pDisk' = scan.file
                   /\ pWriter' = proc
                   /\ pLog' = Append(pLog, [kind |-> "scan", proc |-> proc,
                                            repo |-> repoName, at |-> scan.at])
    /\ UNCHANGED pPc
    /\ UNCHANGED <<jVars, uVars, rVars, cVars, gVars, kVars, iVars, qVars, lVars, aVars, dVars>>

\* the run returns
EndStep(proc) ==
    /\ pPc[proc] = "running"
    /\ pPc' = [pPc EXCEPT ![proc] = "done"]
    /\ UNCHANGED <<pCatalog, pDisk, pWriter, pClock, pLog>>
    /\ UNCHANGED <<jVars, uVars, rVars, cVars, gVars, kVars, iVars, qVars, lVars, aVars, dVars>>

NextRace ==
    \E proc \in Procs :
        \/ LoadStep(proc)
        \/ \E repoName \in Repos : \E fetched \in RaceFetches(repoName) :
               ScanStep(proc, repoName, fetched)
        \/ EndStep(proc)

SpecRace == InitRace /\ [][NextRace]_vars

-----------------------------------------------------------------------------
(* Properties of two runs on one catalog file *)

\* the file a process found when it loaded the catalog
FileLoadedBy(proc) ==
    pLog[CHOOSE i \in DOMAIN pLog : pLog[i].kind = "load" /\ pLog[i].proc = proc].file

ReposIn(file) == IF file = Null THEN {} ELSE DOMAIN file.repos

\* C27: two runs on one catalog file are not coordinated: each loads the
\* catalog once and saves its whole copy after each visit, so after a save
\* the file is the saving process's copy, holding the repositories of the file
\* that process loaded and of its own visits and no others (last writer wins);
\* a visit the other process saved in between is lost.
C27_LastWriterWins ==
    pWriter # 0 =>
        /\ pDisk = pCatalog[pWriter]
        /\ DOMAIN pDisk.repos
               = ReposIn(FileLoadedBy(pWriter))
                 \cup {pLog[i].repo : i \in ScansOf(pWriter)}

\* both runs are over, and a visit one process saved is absent from the file
C27_Witness ==
    /\ \A proc \in Procs : pPc[proc] = "done"
    /\ pWriter # 0
    /\ \E i \in DOMAIN pLog :
           /\ pLog[i].kind = "scan"
           /\ pLog[i].proc # pWriter
           /\ pLog[i].repo \notin DOMAIN pDisk.repos

-----------------------------------------------------------------------------
(* bin/cli.js: the scanner dashboard.  One Node process serves the start,  *)
(* stop and restart requests and runs the callbacks of its timers and of   *)
(* the children it forked, one handler at a time.  A child is known by its *)
(* position in dChildren; dProc is scannerProcess, that position or 0 for  *)
(* null.  dTimers are the pending force-kill timeouts, dPolls the running  *)
(* restart intervals.  `target` of a timeout is the child tracked when the *)
(* stop armed it; the callback itself reads scannerProcess.  A child sent  *)
(* SIGKILL runs no longer; its close event comes later.  The clock ticks   *)
(* between two requests and before a timer callback.                       *)

MAX_LOG_LINES == 500
MaxForks == 3
MaxClock == 5
MaxOutput == 1

DefaultConfig ==
    [limit |-> 50, duration |-> "1h", query |-> "filename:SKILL.md path:skills"]

\* request bodies
Configs == {[limit |-> 10], [duration |-> "2h", query |-> "SKILL"]}

\* Object.assign(scannerConfig, config)
ObjectAssign(target, source) ==
    [f \in DOMAIN target \cup DOMAIN source |->
        IF f \in DOMAIN source THEN source[f] ELSE target[f]]

addLog(logs, line, now) ==
    LastN(Append(logs, [ts |-> toISOString(now), msg |-> line]), MAX_LOG_LINES)

Child(spawned) ==
    [state |-> IF spawned THEN "running" ELSE "failed", signal |-> "none", out |-> 0]

\* subprocess.kill(signal): SIGKILL ends a running child, SIGTERM asks it to end
kill(children, pid, signal) ==
    IF children[pid].state # "running" THEN children
    ELSE [children EXCEPT ![pid].signal = signal,
                          ![pid].state = IF signal = "SIGKILL" THEN "exited" ELSE @]

\* the module's state as one record
Scanner ==
    [proc |-> dProc, status |-> dStatus, startedAt |-> dStartedAt,
     config |-> dConfig, logs |-> dLogs, children |-> dChildren,
     timers |-> dTimers, polls |-> dPolls, reply |-> Null]

startScanner(s, config, now, spawned) ==
    IF s.proc # 0
    THEN [s EXCEPT !.reply = [ok |-> FALSE, error |-> "Scanner is already running"]]
    ELSE LET merged == ObjectAssign(s.config, config)
         IN  [s EXCEPT !.config = merged,
                       !.status = "running",
                       !.startedAt = Str(toISOString(now)),
                       !.logs = addLog(<<>>, <<"Scanner started with", merged>>, now),
                       !.children = Append(s.children, Child(spawned)),
                       !.proc = Len(s.children) + 1,
                       !.reply = [ok |-> TRUE]]

stopScanner(s, now) ==
    IF s.proc = 0
    THEN [s EXCEPT !.reply = [ok |-> FALSE, error |-> "Scanner is not running"]]
    ELSE [s EXCEPT !.status = "stopping",
                   !.logs = addLog(s.logs, <<"Stopping scanner...">>, now),
                   !.children = kill(s.children, s.proc, "SIGTERM"),
                   !.timers = Append(s.timers, [target |-> s.proc]),
                   !.reply = [ok |-> TRUE]]

\* the callback of the timeout of stopScanner
forceKill(s, now) ==
    IF s.proc # 0
    THEN [s EXCEPT !.children = kill(s.children, s.proc, "SIGKILL"),
                   !.logs = addLog(s.logs, <<"Force-killed scanner">>, now),
                   !.proc = 0,
                   !.status = "idle"]
    ELSE s

restartScanner(s, config, now, spawned) ==
    IF s.proc # 0
    THEN LET stopped == stopScanner(s, now)
         IN  [stopped EXCEPT !.polls = Append(stopped.polls, [config |-> config]),
                             !.reply = [ok |-> TRUE, restarting |-> TRUE]]
    ELSE startScanner(s, config, now, spawned)

\* the handlers of 'close' and 'error' of a child
onClose(s, code, now) ==
    [s EXCEPT !.logs = addLog(s.logs, <<"Scanner exited with code", code>>, now),
              !.status = "idle",
              !.proc = 0]

onError(s, now) ==
    [s EXCEPT !.logs = addLog(s.logs, <<"Scanner error">>, now),
              !.status = "idle",
              !.proc = 0]

RemoveAt(seq, i) == SubSeq(seq, 1, i - 1) \o SubSeq(seq, i + 1, Len(seq))

-----------------------------------------------------------------------------
(* Specification of the dashboard: requests, timer callbacks and child     *)
(* events in any order.  A child that could not be spawned emits 'error'   *)
(* on the next tick and 'close', if it emits it, once its pipes are shut:  *)
(* both before any other handler runs.                                     *)

InitDashboard ==
    /\ dProc = 0
    /\ dStatus = "idle"
    /\ dStartedAt = Null
    /\ dConfig = DefaultConfig
    /\ dLogs = <<>>
    /\ dChildren = <<>>
    /\ dTimers = <<>>
    /\ dPolls = <<>>
    /\ dClock = 0
    /\ dLast = [kind |-> "none", proc |-> 0, at |-> 0, reply |-> Null]
    /\ JIdle /\ UIdle /\ RIdle /\ CIdle /\ GIdle /\ KIdle
    /\ IIdle /\ QIdle /\ PIdle /\ LIdle /\ AIdle

\* the module's state becomes s
Becomes(s) ==
    /\ dProc' = s.proc
    /\ dStatus' = s.status
    /\ dStartedAt' = s.startedAt
    /\ dConfig' = s.config
    /\ dLogs' = s.logs
    /\ dChildren' = s.children
    /\ dTimers' = s.timers
    /\ dPolls' = s.polls

Handled(kind, proc, reply) ==
    /\ dLast' = [kind |-> kind, proc |-> proc, at |-> dClock', reply |-> reply]
    /\ UNCHANGED <<jVars, uVars, rVars, cVars, gVars, kVars,
                   iVars, qVars, pVars, lVars, aVars>>

NoErrorPending ==
    \A c \in DOMAIN dChildren : dChildren[c].state \notin {"failed", "errored"}

StartRequest(config, spawned) ==
    /\ NoErrorPending
    /\ dClock < MaxClock
    /\ dProc = 0 => Len(dChildren) < MaxForks
    /\ dClock' = dClock + 1
    /\ LET s == startScanner(Scanner, config, dClock', spawned)
       IN  Becomes(s) /\ Handled("start", s.proc, s.reply)

StopRequest ==
    /\ NoErrorPending
    /\ dClock < MaxClock
    /\ dClock' = dClock + 1
    /\ LET s == stopScanner(Scanner, dClock')
       IN  Becomes(s) /\ Handled("stop", s.proc, s.reply)

RestartRequest(config, spawned) ==
    /\ NoErrorPending
    /\ dClock < MaxClock
    /\ dProc = 0 => Len(dChildren) < MaxForks
    /\ dClock' = dClock + 1
    /\ LET s == restartScanner(Scanner, config, dClock', spawned)
       IN  Becomes(s) /\ Handled("restart", s.proc, s.reply)

\* the oldest timeout is due: all have the same delay
TimerFires ==
    /\ NoErrorPending
    /\ dClock < MaxClock
    /\ dTimers # <<>>
    /\ dClock' = dClock + 1
    /\ LET s == forceKill([Scanner EXCEPT !.timers = Tail(dTimers)], dClock')
       IN  Becomes(s) /\ Handled("timer", Head(dTimers).target, Null)

\* one tick of the interval of a restart
PollTick(i, spawned) ==
    /\ NoErrorPending
    /\ dClock < MaxClock
    /\ dProc = 0 => Len(dChildren) < MaxForks
    /\ dClock' = dClock + 1
    /\ LET s == IF dProc = 0
                THEN startScanner([Scanner EXCEPT !.polls = RemoveAt(dPolls, i)],
                                  dPolls[i].config, dClock', spawned)
                ELSE Scanner
       IN  Becomes(s) /\ Handled("tick", s.proc, Null)

\* a running child ends, by itself or on a signal it was sent
ChildExit(c) ==
    /\ NoErrorPending
    /\ dChildren[c].state = "running"
    /\ dChildren' = [dChildren EXCEPT ![c].state = "exited"]
    /\ UNCHANGED <<dProc, dStatus, dStartedAt, dConfig, dLogs, dTimers, dPolls,
                   dClock, dLast>>
    /\ UNCHANGED <<jVars, uVars, rVars, cVars, gVars, kVars,
                   iVars, qVars, pVars, lVars, aVars>>

\* a line on stdout or stderr of a child
ChildOutput(c) ==
    /\ NoErrorPending
    /\ dChildren[c].state \in {"running", "exited"}
    /\ dChildren[c].out < MaxOutput
    /\ UNCHANGED dClock
    /\ LET s == [Scanner EXCEPT !.logs = addLog(dLogs, <<"output", c>>, dClock),
                                !.children[c].out = @ + 1]
       IN  Becomes(s) /\ Handled("data", c, Null)

\* the exit code: null after a signal, negative when the spawn failed
ExitCode(child) ==
    IF child.state = "errored" THEN Num(-1)
    ELSE IF child.signal = "none" THEN Num(0) ELSE Null

ChildClose(c) ==
    /\ \/ NoErrorPending /\ dChildren[c].state = "exited"
       \/ dChildren[c].state = "errored"
    /\ UNCHANGED dClock
    /\ LET s == onClose([Scanner EXCEPT !.children[c].state = "closed"],
                        ExitCode(dChildren[c]), dClock)
       IN  Becomes(s) /\ Handled("close", c, Null)

\* 'error' of a child that was not spawned; 'close' may follow or not
ChildError(c, closes) ==
    /\ dChildren[c].state = "failed"
    /\ UNCHANGED dClock
    /\ LET after == IF closes THEN "errored" ELSE "closed"
           s == onError([Scanner EXCEPT !.children[c].state = after], dClock)
       IN  Becomes(s) /\ Handled("error", c, Null)

NextDashboard ==
    \/ \E config \in Configs, spawned \in BOOLEAN : StartRequest(config, spawned)
    \/ StopRequest
    \/ \E config \in Configs, spawned \in BOOLEAN : RestartRequest(config, spawned)
    \/ TimerFires
    \/ \E i \in DOMAIN dPolls, spawned \in BOOLEAN : PollTick(i, spawned)
    \/ \E c \in DOMAIN dChildren : ChildExit(c)
    \/ \E c \in DOMAIN dChildren : ChildOutput(c)
    \/ \E c \in DOMAIN dChildren : ChildClose(c)
    \/ \E c \in DOMAIN dChildren, closes \in BOOLEAN : ChildError(c, closes)

SpecDashboard == InitDashboard /\ [][NextDashboard]_vars

-----------------------------------------------------------------------------
(* Properties of the dashboard (specification SpecDashboard) *)

Alive == {c \in DOMAIN dChildren : dChildren[c].state = "running"}

\* the step is the handler of a request of this kind
Serves(kind) == dLast' # dLast /\ dLast'.kind = kind

\* C39: whatever the order of start, stop and restart requests, force-kill
\* timer callbacks, restart polling ticks and close and error events of the
\* children, at most one scanner child is alive at any time; and a start
\* request made while a scanner is tracked is rejected and changes neither
\* the configuration, the logs, the status nor the start time.
C39_OneScannerAndStartRejected ==
    [][/\ Cardinality(Alive') <= 1
       /\ (Serves("start") /\ dProc # 0)
          => /\ dLast'.reply = [ok |-> FALSE, error |-> "Scanner is already running"]
             /\ UNCHANGED <<dConfig, dLogs, dStatus, dStartedAt>>]_vars

\* C40: the force-kill timer of a stop kills no child but the one that was
\* tracked when the stop was requested; a scanner started after that child
\* exited is not killed, and its tracking is not reset to idle, by the timer
\* of the earlier stop or by the close event of the earlier child.
C40_TimerAndCloseTouchOnlyTheirChild ==
    [][(dProc # 0
        /\ (Serves("timer") \/ Serves("close"))
        /\ dLast'.proc # dProc)
       => /\ dChildren'[dProc] = dChildren[dProc]
          /\ dProc' = dProc
          /\ dStatus' = dStatus]_vars

====
